---- MODULE Spec2Model ----
(***************************************************************************)
(* Document ingestion pipeline of freiplatz: upload protocol, quality      *)
(* gates, error classifier, embedding client, job state machine, outbox    *)
(* dispatcher and ingestion coordinator.                                   *)
(*                                                                         *)
(* The specifications of the module:                                       *)
(*   Spec          the pipeline (documents, jobs, outbox, workers, clock)  *)
(*   SpecLive      the pipeline under fair scheduling                      *)
(*   SpecDocs      the document API: Upload Init, Upload Complete, PATCH,  *)
(*                 DELETE                                                  *)
(*   SpecGates     checkExtractionQuality applied to bounded page lists    *)
(*   SpecClassify  classifyError applied to bounded error messages         *)
(*   SpecRouter    parseDocument applied to (mimeType, sourceType) pairs   *)
(*   SpecParsers   the TXT, CSV and DOCX parsers applied to bounded texts  *)
(*   SpecHtml      the HTML parser's pager applied to bounded texts        *)
(*   SpecXlsx      the XLSX parser applied to bounded workbooks            *)
(*   SpecPhone     formatE164Phone applied to bounded phone numbers        *)
(*   SpecInit      Upload Init followed by the router's call               *)
(*   SpecWebhook   the WhatsApp webhook applied to bounded requests        *)
(*   SpecCustomers concurrent calls of findOrCreateWhatsAppCustomer        *)
(*   SpecChunker   chunkPagesWithProvenance applied to bounded documents   *)
(*   SpecBatch     generateEmbeddingsBatched applied to bounded text lists *)
(***************************************************************************)
EXTENDS Integers, Sequences, FiniteSets, TLC

VARIABLES
    now,         \* wall clock (integer ticks)
    docStatus,   \* documents.status per document id ("none": no row)
    job,         \* ingestion_jobs row of version 1 of each document
    outbox,      \* event_outbox row of each document's ingestion request
    leaseExpiry, \* in-flight marker of each outbox row: its lease expiry or NULL
    pages,       \* document_pages rows per version: sequence of page numbers
    chunks,      \* document_chunks rows per version: sequence of chunk indices
    embeddings,  \* chunk_embeddings rows per version: sequence of [chunk, dim]
    worker,      \* per worker: position in dispatcher/coordinator and leased row
    deletedIn,   \* history: job stage at the moment DELETE marked the document
    version,     \* per document: its document_versions row of version 1 exists
    docMeta,     \* documents.title and documents.labels per document id
    initStatus,  \* HTTP status of the last Upload Init response (0: no request yet)
    qPages,      \* input of checkExtractionQuality
    qResult,     \* its result
    cMsg,        \* input of classifyError (String(error), a character sequence)
    cParts,      \* number of fragments cMsg was put together from
    cCode,       \* its result
    rMime,       \* parseDocument: mimeType (a character sequence)
    rSource,     \* parseDocument: sourceType (<<>> when absent)
    rResult,     \* its outcome and the error code recorded for the job
    pBody,       \* input of the TXT, CSV and DOCX parsers: a sequence of runs
    pResult,     \* their results
    kPages,      \* input of chunkPagesWithProvenance
    kOut,        \* its chunks and the sentences it left over
    bArgs,       \* a call of generateEmbeddingsBatched
    bOut,        \* its outcome and the requests it sent
    xSheets,     \* input of the XLSX parser: the sheets of a workbook
    xResult,     \* its result
    fPhone,      \* input of formatE164Phone (a character sequence)
    fParts,      \* number of fragments fPhone was put together from
    fResult,     \* fPhone formatted once and twice
    hBody,       \* input of the HTML pager: the extracted text as runs
    hResult,     \* its result
    uInit,       \* an Upload Init request, the rows it stored and the router's outcome
    customers,   \* the customers table: rows [id, businessId, phone, optIn]
    wResponse,   \* the last webhook request: its signer, response status and what it did
    wCalls       \* per call of findOrCreateWhatsAppCustomer: its position and result

vars == <<now, docStatus, job, outbox, leaseExpiry, pages, chunks,
          embeddings, worker, deletedIn, version, docMeta, initStatus,
          qPages, qResult, cMsg, cParts, cCode, rMime, rSource, rResult,
          pBody, pResult, kPages, kOut, bArgs, bOut, xSheets, xResult,
          fPhone, fParts, fResult, hBody, hResult, uInit, customers,
          wResponse, wCalls>>

apiVars == <<version, docMeta, initStatus>>
pipelineVars == <<now, docStatus, job, outbox, leaseExpiry, pages, chunks, embeddings,
                  worker, deletedIn, apiVars>>
gateVars == <<qPages, qResult>>
classifyVars == <<cMsg, cParts, cCode>>
routerVars == <<rMime, rSource, rResult>>
parserVars == <<pBody, pResult>>
chunkerVars == <<kPages, kOut>>
batchVars == <<bArgs, bOut>>
xlsxVars == <<xSheets, xResult>>
phoneVars == <<fPhone, fParts, fResult>>
htmlVars == <<hBody, hResult>>
initVars == <<uInit>>
whatsappVars == <<customers, wResponse, wCalls>>
utilVars == <<routerVars, parserVars, chunkerVars, batchVars, xlsxVars, phoneVars, htmlVars, initVars, whatsappVars>>

(***************************************************************************)
(* Bounds of the model.                                                    *)
(***************************************************************************)
NumWorkers == 2
MaxTime == 4
NumChunks == 2
MaxPages == 6
MaxFrags == 2
MaxRuns == 3
MaxDocPages == 3
MaxSentences == 3
MaxTexts == 5
MaxBatchSize == 3
MaxSheets == 3
MaxPhoneParts == 3
MaxHtmlRuns == 5
NumCalls == 2

\* Documents are independent of one another (no operation reads another
\* document's rows), so one document with its version and job is followed.
Docs == {"d1"}
Workers == 1..NumWorkers
NULL == -1

Min(a, b) == IF a < b THEN a ELSE b

RECURSIVE Pow2(_)
Pow2(n) == IF n <= 0 THEN 1 ELSE 2 * Pow2(n - 1)

(***************************************************************************)
(* Strings are sequences of one-character strings, so that toLowerCase and *)
(* includes are computed and not assumed.                                  *)
(***************************************************************************)
UPPER == <<"A", "B", "C", "D", "E", "F", "G", "H", "I", "J", "K", "L", "M",
           "N", "O", "P", "Q", "R", "S", "T", "U", "V", "W", "X", "Y", "Z">>
LOWER == <<"a", "b", "c", "d", "e", "f", "g", "h", "i", "j", "k", "l", "m",
           "n", "o", "p", "q", "r", "s", "t", "u", "v", "w", "x", "y", "z">>

LowerChar(c) ==
    IF \E i \in 1..Len(UPPER) : UPPER[i] = c
    THEN LOWER[CHOOSE i \in 1..Len(UPPER) : UPPER[i] = c]
    ELSE c

toLowerCase(s) == [i \in 1..Len(s) |-> LowerChar(s[i])]

includes(s, k) ==
    \E i \in 0..(Len(s) - Len(k)) : SubSeq(s, i + 1, i + Len(k)) = k

KW ==
    [ rate_limit |-> <<"r", "a", "t", "e", " ", "l", "i", "m", "i", "t">>,
      http_429 |-> <<"4", "2", "9">>,
      too_many |-> <<"t", "o", "o", " ", "m", "a", "n", "y">>,
      timeout |-> <<"t", "i", "m", "e", "o", "u", "t">>,
      timed_out |-> <<"t", "i", "m", "e", "d", " ", "o", "u", "t">>,
      aborted |-> <<"a", "b", "o", "r", "t", "e", "d">>,
      invalid_pdf |-> <<"i", "n", "v", "a", "l", "i", "d", " ", "p", "d", "f">>,
      corrupt |-> <<"c", "o", "r", "r", "u", "p", "t">>,
      bad_xref |-> <<"b", "a", "d", " ", "x", "r", "e", "f">>,
      unsupported |-> <<"u", "n", "s", "u", "p", "p", "o", "r", "t", "e", "d">>,
      unknown_format |-> <<"u", "n", "k", "n", "o", "w", "n", " ", "f", "o", "r", "m", "a", "t">>,
      not_supported |-> <<"n", "o", "t", " ", "s", "u", "p", "p", "o", "r", "t", "e", "d">>,
      too_large |-> <<"t", "o", "o", " ", "l", "a", "r", "g", "e">>,
      size_limit |-> <<"s", "i", "z", "e", " ", "l", "i", "m", "i", "t">>,
      memory |-> <<"m", "e", "m", "o", "r", "y">> ]

(***************************************************************************)
(* classifyError: String(error).toLowerCase(), then the if-chain.          *)
(***************************************************************************)
classifyError_swapped(error) ==
    LET msg == toLowerCase(error) IN
    IF includes(msg, KW.timeout) \/ includes(msg, KW.timed_out) \/ includes(msg, KW.aborted)
    THEN "timeout"
    ELSE IF includes(msg, KW.rate_limit) \/ includes(msg, KW.http_429) \/ includes(msg, KW.too_many)
    THEN "provider_rate_limited"
    ELSE IF includes(msg, KW.invalid_pdf) \/ includes(msg, KW.corrupt) \/ includes(msg, KW.bad_xref)
    THEN "file_corrupted"
    ELSE IF includes(msg, KW.unsupported) \/ includes(msg, KW.unknown_format) \/ includes(msg, KW.not_supported)
    THEN "unsupported_format"
    ELSE IF includes(msg, KW.too_large) \/ includes(msg, KW.size_limit) \/ includes(msg, KW.memory)
    THEN "file_too_large"
    ELSE "parse_failed"

classifyError(error) ==
    LET msg == toLowerCase(error) IN
    IF includes(msg, KW.rate_limit) \/ includes(msg, KW.http_429) \/ includes(msg, KW.too_many)
    THEN "provider_rate_limited"
    ELSE IF includes(msg, KW.timeout) \/ includes(msg, KW.timed_out) \/ includes(msg, KW.aborted)
    THEN "timeout"
    ELSE IF includes(msg, KW.invalid_pdf) \/ includes(msg, KW.corrupt) \/ includes(msg, KW.bad_xref)
    THEN "file_corrupted"
    ELSE IF includes(msg, KW.unsupported) \/ includes(msg, KW.unknown_format) \/ includes(msg, KW.not_supported)
    THEN "unsupported_format"
    ELSE IF includes(msg, KW.too_large) \/ includes(msg, KW.size_limit) \/ includes(msg, KW.memory)
    THEN "file_too_large"
    ELSE "parse_failed"

(***************************************************************************)
(* checkExtractionQuality over pages [pageNumber, charCount].              *)
(* nonEmptyRatio = nonEmptyPages / pageCount and avgCharsPerPage =         *)
(* totalChars / pageCount are compared cross-multiplied, which is exact    *)
(* for the double comparisons r < 0.3, r < 0.5 and avg < 20.               *)
(***************************************************************************)
RECURSIVE SumCharCount(_)
SumCharCount(ps) ==
    IF Len(ps) = 0 THEN 0 ELSE ps[1].charCount + SumCharCount(Tail(ps))

NonEmptyPages_anyChar(ps) == Cardinality({i \in 1..Len(ps) : ps[i].charCount > 0})

NonEmptyPages(ps) == Cardinality({i \in 1..Len(ps) : ps[i].charCount > 10})

GateIssues(ps) ==
    LET pageCount == Len(ps)
        totalChars == SumCharCount(ps)
        nonEmptyPages == NonEmptyPages(ps)
        minTotalChars == IF pageCount = 1 THEN 20 ELSE pageCount * 50
    IN  (IF totalChars < minTotalChars THEN <<"low_extraction">> ELSE <<>>)
        \o (IF pageCount > 3 /\ 2 * nonEmptyPages < pageCount
            THEN <<"non_empty_ratio">> ELSE <<>>)
        \o (IF pageCount > 5 /\ totalChars < 20 * pageCount
            THEN <<"low_density">> ELSE <<>>)

checkExtractionQuality_ocrFirst(ps) ==
    LET pageCount == Len(ps)
        totalChars == SumCharCount(ps)
        nonEmptyPages == NonEmptyPages(ps)
        issues == GateIssues(ps)
    IN  IF pageCount > 1 /\ totalChars < 100 /\ 10 * nonEmptyPages < 3 * pageCount
        THEN [passed |-> FALSE, issues |-> 2, errorCode |-> "needs_ocr"]
        ELSE IF totalChars = 0
        THEN [passed |-> FALSE, issues |-> 1, errorCode |-> "extraction_empty"]
        ELSE IF Len(issues) >= 2
        THEN [passed |-> FALSE, issues |-> Len(issues), errorCode |-> "extraction_low_quality"]
        ELSE [passed |-> TRUE, issues |-> Len(issues), errorCode |-> "none"]

checkExtractionQuality(ps) ==
    LET pageCount == Len(ps)
        totalChars == SumCharCount(ps)
        nonEmptyPages == NonEmptyPages(ps)
        issues == GateIssues(ps)
    IN  IF totalChars = 0
        THEN [passed |-> FALSE, issues |-> 1, errorCode |-> "extraction_empty"]
        ELSE IF pageCount > 1 /\ totalChars < 100 /\ 10 * nonEmptyPages < 3 * pageCount
        THEN [passed |-> FALSE, issues |-> 2, errorCode |-> "needs_ocr"]
        ELSE IF Len(issues) >= 2
        THEN [passed |-> FALSE, issues |-> Len(issues), errorCode |-> "extraction_low_quality"]
        ELSE [passed |-> TRUE, issues |-> Len(issues), errorCode |-> "none"]

(***************************************************************************)
(* Upload Init: SUPPORTED_TYPES and getSourceType.  The filename is given  *)
(* by its lower-cased last extension.                                      *)
(***************************************************************************)
SUPPORTED_TYPES ==
    [m \in { "application/pdf",
             "application/vnd.openxmlformats-officedocument.wordprocessingml.document",
             "application/msword",
             "text/plain",
             "text/csv",
             "application/csv",
             "application/vnd.openxmlformats-officedocument.spreadsheetml.sheet",
             "application/vnd.ms-excel",
             "text/html",
             "application/xhtml+xml" } |->
        CASE m = "application/pdf" -> "pdf"
          [] m = "application/vnd.openxmlformats-officedocument.wordprocessingml.document" -> "docx"
          [] m = "application/msword" -> "doc"
          [] m = "text/plain" -> "txt"
          [] m = "text/csv" -> "csv"
          [] m = "application/csv" -> "csv"
          [] m = "application/vnd.openxmlformats-officedocument.spreadsheetml.sheet" -> "xlsx"
          [] m = "application/vnd.ms-excel" -> "xls"
          [] m = "text/html" -> "html"
          [] m = "application/xhtml+xml" -> "html"]

extensionMap ==
    [e \in {"pdf", "docx", "doc", "txt", "csv", "xlsx", "xls", "html", "htm"} |->
        IF e = "htm" THEN "html" ELSE e]

\* what an object literal answers for a key it does not define itself: the
\* inherited value (a function or an object, never a string), given by name
Inherited ==
    [k \in {"constructor", "toString", "__proto__"} |->
        CASE k = "constructor" -> "Object"
          [] k = "toString" -> "Object.prototype.toString"
          [] k = "__proto__" -> "Object.prototype"]

getSourceType(mimeType, ext) ==
    IF mimeType \in DOMAIN SUPPORTED_TYPES THEN SUPPORTED_TYPES[mimeType]
    ELSE IF mimeType \in DOMAIN Inherited THEN Inherited[mimeType]
    ELSE IF ext \in DOMAIN extensionMap THEN extensionMap[ext]
    ELSE IF ext \in DOMAIN Inherited THEN Inherited[ext]
    ELSE "null"

ContentTypes == {"application/pdf", "text/plain", "application/octet-stream"}
Extensions == {"pdf", "bin"}
InitTitles == {"Menu"}
Faults == {"none", "document", "version", "job", "url"}

(***************************************************************************)
(* Parser router.  MIME types and source types are character sequences,    *)
(* because the message of the router's error carries them into             *)
(* classifyError.  PARSER_MAP and SOURCE_TYPE_FALLBACK are object          *)
(* literals: a lookup finds the literal's own keys and, for any other key, *)
(* what Object.prototype supplies under that name.                         *)
(***************************************************************************)
MIME ==
    [ pdf |-> <<"a", "p", "p", "l", "i", "c", "a", "t", "i", "o", "n", "/", "p", "d", "f">>,
      docx |-> <<"a", "p", "p", "l", "i", "c", "a", "t", "i", "o", "n", "/", "v", "n", "d", ".", "o", "p", "e", "n", "x", "m", "l", "f", "o", "r", "m", "a", "t", "s", "-", "o", "f", "f", "i", "c", "e", "d", "o", "c", "u", "m", "e", "n", "t", ".", "w", "o", "r", "d", "p", "r", "o", "c", "e", "s", "s", "i", "n", "g", "m", "l", ".", "d", "o", "c", "u", "m", "e", "n", "t">>,
      doc |-> <<"a", "p", "p", "l", "i", "c", "a", "t", "i", "o", "n", "/", "m", "s", "w", "o", "r", "d">>,
      txt |-> <<"t", "e", "x", "t", "/", "p", "l", "a", "i", "n">>,
      csv |-> <<"t", "e", "x", "t", "/", "c", "s", "v">>,
      app_csv |-> <<"a", "p", "p", "l", "i", "c", "a", "t", "i", "o", "n", "/", "c", "s", "v">>,
      xlsx |-> <<"a", "p", "p", "l", "i", "c", "a", "t", "i", "o", "n", "/", "v", "n", "d", ".", "o", "p", "e", "n", "x", "m", "l", "f", "o", "r", "m", "a", "t", "s", "-", "o", "f", "f", "i", "c", "e", "d", "o", "c", "u", "m", "e", "n", "t", ".", "s", "p", "r", "e", "a", "d", "s", "h", "e", "e", "t", "m", "l", ".", "s", "h", "e", "e", "t">>,
      xls |-> <<"a", "p", "p", "l", "i", "c", "a", "t", "i", "o", "n", "/", "v", "n", "d", ".", "m", "s", "-", "e", "x", "c", "e", "l">>,
      html |-> <<"t", "e", "x", "t", "/", "h", "t", "m", "l">>,
      xhtml |-> <<"a", "p", "p", "l", "i", "c", "a", "t", "i", "o", "n", "/", "x", "h", "t", "m", "l", "+", "x", "m", "l">> ]

ST ==
    [ pdf |-> <<"p", "d", "f">>,
      docx |-> <<"d", "o", "c", "x">>,
      doc |-> <<"d", "o", "c">>,
      txt |-> <<"t", "x", "t">>,
      csv |-> <<"c", "s", "v">>,
      xlsx |-> <<"x", "l", "s", "x">>,
      xls |-> <<"x", "l", "s">>,
      html |-> <<"h", "t", "m", "l">>,
      htm |-> <<"h", "t", "m">> ]

PARSER_MAP ==
    [m \in {MIME.pdf, MIME.docx, MIME.doc, MIME.txt, MIME.csv,
             MIME.app_csv, MIME.xlsx, MIME.xls, MIME.html, MIME.xhtml} |->
        CASE m = MIME.pdf -> "extractWithPdf"
          [] m = MIME.docx -> "extractWithDocx"
          [] m = MIME.doc -> "extractWithDocx"
          [] m = MIME.txt -> "extractWithTxt"
          [] m = MIME.csv -> "extractWithCsv"
          [] m = MIME.app_csv -> "extractWithCsv"
          [] m = MIME.xlsx -> "extractWithXlsx"
          [] m = MIME.xls -> "extractWithXlsx"
          [] m = MIME.html -> "extractWithHtml"
          [] m = MIME.xhtml -> "extractWithHtml"]

SOURCE_TYPE_FALLBACK ==
    [t \in {ST.pdf, ST.docx, ST.doc, ST.txt, ST.csv, ST.xlsx, ST.xls, ST.html, ST.htm} |->
        CASE t = ST.pdf -> MIME.pdf
          [] t = ST.docx -> MIME.docx
          [] t = ST.doc -> MIME.doc
          [] t = ST.txt -> MIME.txt
          [] t = ST.csv -> MIME.csv
          [] t = ST.xlsx -> MIME.xlsx
          [] t = ST.xls -> MIME.xls
          [] t = ST.html -> MIME.html
          [] t = ST.htm -> MIME.html]

\* names every object inherits, with the string the inherited value turns into

ObjectPrototype ==
    LET inherited ==
          { [key |-> <<"c", "o", "n", "s", "t", "r", "u", "c", "t", "o", "r">>,
             callable |-> TRUE, name |-> "Object",
             string |-> <<"f", "u", "n", "c", "t", "i", "o", "n", " ", "O", "b", "j", "e", "c", "t", "(", ")", " ", "{", " ", "[", "n", "a", "t", "i", "v", "e", " ", "c", "o", "d", "e", "]", " ", "}">>],
            [key |-> <<"t", "o", "S", "t", "r", "i", "n", "g">>,
             callable |-> TRUE, name |-> "Object.prototype.toString",
             string |-> <<"f", "u", "n", "c", "t", "i", "o", "n", " ", "t", "o", "S", "t", "r", "i", "n", "g", "(", ")", " ", "{", " ", "[", "n", "a", "t", "i", "v", "e", " ", "c", "o", "d", "e", "]", " ", "}">>],
            [key |-> <<"_", "_", "p", "r", "o", "t", "o", "_", "_">>,
             callable |-> FALSE, name |-> "Object.prototype",
             string |-> <<"[", "o", "b", "j", "e", "c", "t", " ", "O", "b", "j", "e", "c", "t", "]">>] }
    IN  [k \in {p.key : p \in inherited} |-> CHOOSE p \in inherited : p.key = k]

\* PARSER_MAP[key]: [found, callable, name]
LookupParser(key) ==
    IF key \in DOMAIN PARSER_MAP
    THEN [found |-> TRUE, callable |-> TRUE, name |-> PARSER_MAP[key]]
    ELSE IF key \in DOMAIN ObjectPrototype
    THEN [found |-> TRUE, callable |-> ObjectPrototype[key].callable,
          name |-> ObjectPrototype[key].name]
    ELSE [found |-> FALSE, callable |-> FALSE, name |-> "undefined"]

\* SOURCE_TYPE_FALLBACK[sourceType] as the property key it is used as next
LookupFallback(sourceType) ==
    IF sourceType \in DOMAIN SOURCE_TYPE_FALLBACK
    THEN [found |-> TRUE, key |-> SOURCE_TYPE_FALLBACK[sourceType]]
    ELSE IF sourceType \in DOMAIN ObjectPrototype
    THEN [found |-> TRUE, key |-> ObjectPrototype[sourceType].string]
    ELSE [found |-> FALSE, key |-> <<>>]

TYPE_ERR == <<"T", "y", "p", "e", "E", "r", "r", "o", "r", ":", " ", "p", "a", "r", "s", "e", "r", " ", "i", "s", " ", "n", "o", "t", " ", "a", " ", "f", "u", "n", "c", "t", "i", "o", "n">>

\* String(new Error(`Unsupported file type: ${mimeType} (source_type: ${sourceType || 'none'})`))
UnsupportedError(mimeType, sourceType) ==
    <<"E", "r", "r", "o", "r", ":", " ", "U", "n", "s", "u", "p", "p", "o", "r", "t", "e", "d", " ", "f", "i", "l", "e", " ", "t", "y", "p", "e", ":", " ">>
    \o mimeType
    \o <<" ", "(", "s", "o", "u", "r", "c", "e", "_", "t", "y", "p", "e", ":", " ">>
    \o (IF sourceType # <<>> THEN sourceType ELSE <<"n", "o", "n", "e">>)
    \o <<")">>

\* the outcome of parseDocument: the parser the buffer went to, or String(e)
\* of the error thrown
parseDocument(mimeType, sourceType) ==
    LET first == LookupParser(mimeType)
        fallbackMime == LookupFallback(sourceType)
        parser == IF ~first.found /\ sourceType # <<>> /\ fallbackMime.found
                  THEN LookupParser(fallbackMime.key)
                  ELSE first
    IN  IF ~parser.found
        THEN [threw |-> TRUE, parser |-> "undefined",
              error |-> UnsupportedError(mimeType, sourceType)]
        ELSE IF ~parser.callable
        THEN [threw |-> TRUE, parser |-> parser.name, error |-> TYPE_ERR]
        ELSE [threw |-> FALSE, parser |-> parser.name, error |-> <<>>]

\* parser-layer exceptions are caught and classified; the code is recorded
\* on the job
RecordedErrorCode(outcome) ==
    IF outcome.threw THEN classifyError(outcome.error) ELSE "none"

Routed(mimeType, sourceType) ==
    LET r == parseDocument(mimeType, sourceType)
    IN  [threw |-> r.threw, parser |-> r.parser, error |-> r.error,
         errorCode |-> RecordedErrorCode(r)]

RouterIdle == rMime = <<>> /\ rSource = <<>> /\ rResult = Routed(<<>>, <<>>)


(***************************************************************************)
(* Upload Init as the source of the router's arguments: the version row    *)
(* keeps the request's contentType as mimeType, the job row keeps what     *)
(* getSourceType returned as sourceType.  A sourceType that is not a       *)
(* string reaches the database driver as a query parameter: the driver     *)
(* either refuses it (the handler answers 500, no job row) or writes       *)
(* String(value).                                                          *)
(***************************************************************************)
InitContentTypes ==
    DOMAIN SUPPORTED_TYPES \cup DOMAIN Inherited \cup
    {"", "application/octet-stream", "text/plain; charset=utf-8", "image/png"}

InitExtensions == DOMAIN extensionMap \cup DOMAIN Inherited \cup {"", "bin", "png"}

\* a content type as the character sequence the router reads
ContentTypeChars ==
    [m \in InitContentTypes |->
        CASE m = "application/pdf" -> MIME.pdf
          [] m = "application/vnd.openxmlformats-officedocument.wordprocessingml.document" -> MIME.docx
          [] m = "application/msword" -> MIME.doc
          [] m = "text/plain" -> MIME.txt
          [] m = "text/csv" -> MIME.csv
          [] m = "application/csv" -> MIME.app_csv
          [] m = "application/vnd.openxmlformats-officedocument.spreadsheetml.sheet" -> MIME.xlsx
          [] m = "application/vnd.ms-excel" -> MIME.xls
          [] m = "text/html" -> MIME.html
          [] m = "application/xhtml+xml" -> MIME.xhtml
          [] m = "application/octet-stream" -> <<"a", "p", "p", "l", "i", "c", "a", "t", "i", "o", "n", "/", "o", "c", "t", "e", "t", "-", "s", "t", "r", "e", "a", "m">>
          [] m = "text/plain; charset=utf-8" -> <<"t", "e", "x", "t", "/", "p", "l", "a", "i", "n", ";", " ", "c", "h", "a", "r", "s", "e", "t", "=", "u", "t", "f", "-", "8">>
          [] m = "image/png" -> <<"i", "m", "a", "g", "e", "/", "p", "n", "g">>
          [] m = "constructor" -> <<"c", "o", "n", "s", "t", "r", "u", "c", "t", "o", "r">>
          [] m = "toString" -> <<"t", "o", "S", "t", "r", "i", "n", "g">>
          [] m = "__proto__" -> <<"_", "_", "p", "r", "o", "t", "o", "_", "_">>
          [] m = "" -> <<>>]

\* the source_type column for a value getSourceType returned
StoredSourceType(sourceType) ==
    IF sourceType \in DOMAIN ST THEN ST[sourceType]
    ELSE ObjectPrototype[CHOOSE k \in DOMAIN ObjectPrototype :
                             ObjectPrototype[k].name = sourceType].string

NoRequest ==
    [contentType |-> "", ext |-> "", status |-> 0, job |-> FALSE,
     mimeType |-> <<>>, sourceType |-> <<>>, routed |-> FALSE,
     result |-> [threw |-> FALSE, parser |-> "none", error |-> <<>>, errorCode |-> "none"]]

InitIdle == uInit = NoRequest

(***************************************************************************)
(* Parsers that cut a text into logical pages.  A text is a sequence of    *)
(* runs [n, text]: n consecutive units (lines of a TXT file, data rows of  *)
(* a CSV file, paragraphs of a DOCX file) that all carry text (text =      *)
(* TRUE) or all are blank: a line or paragraph of white space, a row whose *)
(* fields are all empty.                                                   *)
(***************************************************************************)
TXT_LINES_PER_PAGE == 100
DOCX_LINES_PER_PAGE == 50
MAX_ROWS == 10000
ROWS_PER_PAGE == 100

RECURSIVE Count(_)
Count(runs) == IF runs = <<>> THEN 0 ELSE runs[1].n + Count(Tail(runs))

\* String.prototype.trim of the whole text: blank units at either end go
RECURSIVE trim(_)
trim(runs) ==
    IF runs = <<>> THEN runs
    ELSE IF ~runs[1].text THEN trim(Tail(runs))
    ELSE IF ~runs[Len(runs)].text THEN trim(SubSeq(runs, 1, Len(runs) - 1))
    ELSE runs

\* units.slice(0, limit)
RECURSIVE Take(_, _)
Take(runs, limit) ==
    IF runs = <<>> \/ limit <= 0 THEN <<>>
    ELSE IF runs[1].n <= limit
    THEN <<runs[1]>> \o Take(Tail(runs), limit - runs[1].n)
    ELSE <<[runs[1] EXCEPT !.n = limit]>>

\* units.slice(from, to), joined and trimmed, is not the empty string
RECURSIVE SliceHasText(_, _, _)
SliceHasText(runs, from, to) ==
    IF runs = <<>> \/ to <= 0 THEN FALSE
    ELSE \/ runs[1].text /\ from < runs[1].n
         \/ SliceHasText(Tail(runs), from - runs[1].n, to - runs[1].n)

\* for (let i = 0; i < units.length; i += perPage): iteration k has
\* i = k * perPage and pushes a page numbered Math.floor(i / perPage) + 1
\* when its content is not empty.  The iterations lo..hi are evaluated by
\* halves, in loop order.
RECURSIVE PageLoop(_, _, _, _)
PageLoop(units, perPage, lo, hi) ==
    IF lo > hi THEN <<>>
    ELSE IF lo = hi
    THEN LET i == lo * perPage
         IN  IF SliceHasText(units, i, i + perPage)
             THEN <<[pageNumber |-> (i \div perPage) + 1]>>
             ELSE <<>>
    ELSE LET mid == (lo + hi) \div 2
         IN  PageLoop(units, perPage, lo, mid) \o PageLoop(units, perPage, mid + 1, hi)

LastIteration(units, perPage) == (Count(units) - 1) \div perPage

extractWithTxt(body) ==
    LET lines == trim(body) IN
    IF Count(lines) = 0
    THEN [pages |-> <<>>, totalPages |-> 0]
    ELSE LET pushed == PageLoop(lines, TXT_LINES_PER_PAGE, 0,
                                 LastIteration(lines, TXT_LINES_PER_PAGE))
         IN  [pages |-> pushed, totalPages |-> Len(pushed)]

\* Papa.parse with header, skipEmptyLines and preview: at most MAX_ROWS data
\* rows.  metadata.truncated is absent (falsy) on the early return.
extractWithCsv(body) ==
    LET rows == Take(body, MAX_ROWS) IN
    IF Count(rows) = 0
    THEN [pages |-> <<>>, totalPages |-> 0, rowCount |-> 0, truncated |-> FALSE]
    ELSE LET pushed == PageLoop(rows, ROWS_PER_PAGE, 0,
                                 LastIteration(rows, ROWS_PER_PAGE))
         IN  [pages |-> pushed, totalPages |-> Len(pushed),
              rowCount |-> Count(rows), truncated |-> Count(rows) >= MAX_ROWS]

extractWithDocx(body) ==
    LET paragraphs == trim(body) IN
    IF Count(paragraphs) = 0
    THEN [pages |-> <<>>, totalPages |-> 0]
    ELSE LET looped == PageLoop(paragraphs, DOCX_LINES_PER_PAGE, 0,
                                 LastIteration(paragraphs, DOCX_LINES_PER_PAGE))
             pushed == IF Len(looped) = 0 THEN <<[pageNumber |-> 1]>> ELSE looped
         IN  [pages |-> pushed, totalPages |-> Len(pushed)]

Parsed(body) ==
    [txt |-> extractWithTxt(body), csv |-> extractWithCsv(body),
     docx |-> extractWithDocx(body)]

ParsersIdle == pBody = <<>> /\ pResult = Parsed(<<>>)

(***************************************************************************)
(* XLSX parser.  A workbook is the sequence of its sheets in SheetNames     *)
(* order, a sheet [n, text]: n is the length of `data`, the non-blank rows *)
(* sheet_to_json returns with the header row first, and text says whether  *)
(* a data row the parser keeps renders to a non-empty line.  A sheet's     *)
(* name is its position in the workbook.                                   *)
(***************************************************************************)
MAX_ROWS_PER_SHEET == 5000

\* for (const sheetName of workbook.SheetNames), from sheet k on
RECURSIVE SheetLoop(_, _, _, _, _)
SheetLoop(sheets, k, pushed, pageNumber, sheetInfo) ==
    IF k > Len(sheets)
    THEN [pages |-> pushed, totalPages |-> Len(pushed), sheetInfo |-> sheetInfo]
    ELSE LET data == sheets[k].n
             truncated == data > MAX_ROWS_PER_SHEET
             rows == IF truncated THEN MAX_ROWS_PER_SHEET ELSE data
             dataRows == rows - 1
         IN  IF data = 0 \/ dataRows = 0 \/ ~sheets[k].text
             THEN SheetLoop(sheets, k + 1, pushed, pageNumber, sheetInfo)
             ELSE SheetLoop(sheets, k + 1,
                            Append(pushed, [pageNumber |-> pageNumber]),
                            pageNumber + 1,
                            sheetInfo @@ (k :> [rows |-> dataRows, truncated |-> truncated]))

extractWithXlsx(sheets) == SheetLoop(sheets, 1, <<>>, 1, <<>>)

XlsxIdle == xSheets = <<>> /\ xResult = extractWithXlsx(<<>>)

(***************************************************************************)
(* WhatsApp phone number formatting.  A phone number is a sequence of      *)
(* characters.                                                             *)
(***************************************************************************)
startsWith(s, prefix) ==
    Len(s) >= Len(prefix) /\ SubSeq(s, 1, Len(prefix)) = prefix

\* s.replace(/[^\d+]/g, '')
removeNonDigits(s) ==
    LET kept == {"0", "1", "2", "3", "4", "5", "6", "7", "8", "9", "+"}
        Keep(ch) == ch \in kept
    IN  SelectSeq(s, Keep)

formatE164Phone_digitsOnly(phone) ==
    LET slice(str, k) == SubSeq(str, k + 1, Len(str))
        onlyDigits(str) == SelectSeq(removeNonDigits(str), LAMBDA ch : ch # "+")
        whatsapp == <<"w", "h", "a", "t", "s", "a", "p", "p", ":">>
        c1 == IF startsWith(toLowerCase(phone), whatsapp)
              THEN onlyDigits(slice(phone, Len(whatsapp)))
              ELSE onlyDigits(phone)
        c2 == IF startsWith(c1, <<"0", "0">>) THEN <<"+">> \o slice(c1, 2) ELSE c1
        c3 == IF startsWith(c2, <<"0">>) /\ Len(c2) = 7
              THEN <<"+", "5", "9", "2">> \o slice(c2, 1)
              ELSE c2
        c4 == IF ~startsWith(c3, <<"+">>) /\ Len(c3) > 10 THEN <<"+">> \o c3 ELSE c3
    IN  c4

formatE164Phone(phone) ==
    LET slice(str, k) == SubSeq(str, k + 1, Len(str))
        whatsapp == <<"w", "h", "a", "t", "s", "a", "p", "p", ":">>
        c1 == IF startsWith(toLowerCase(phone), whatsapp)
              THEN removeNonDigits(slice(phone, Len(whatsapp)))
              ELSE removeNonDigits(phone)
        c2 == IF startsWith(c1, <<"0", "0">>) THEN <<"+">> \o slice(c1, 2) ELSE c1
        c3 == IF startsWith(c2, <<"0">>) /\ Len(c2) = 7
              THEN <<"+", "5", "9", "2">> \o slice(c2, 1)
              ELSE c2
        c4 == IF ~startsWith(c3, <<"+">>) /\ Len(c3) > 10 THEN <<"+">> \o c3 ELSE c3
    IN  c4

\* a number formatted, and the result formatted again
Formatted(phone) ==
    LET once == formatE164Phone(phone)
    IN  [once |-> once, twice |-> formatE164Phone(once)]

PhoneIdle == fPhone = <<>> /\ fParts = 0 /\ fResult = Formatted(<<>>)

(***************************************************************************)
(* WhatsApp customers.  customers is the table as a sequence of rows       *)
(* [id, businessId, phone, optIn] in insertion order.                      *)
(* findOrCreateWhatsAppCustomer is a SELECT followed, when no row was      *)
(* found, by an INSERT; each is one statement of its own, so calls         *)
(* interleave between the two (SelectCustomer, InsertCustomer below).      *)
(***************************************************************************)
\* select id from customers where business_id = ... and phone = ... limit 1
\* (0: no row)
ExistingCustomer(rows, businessId, normalizedPhone) ==
    LET found == {i \in 1..Len(rows) : /\ rows[i].businessId = businessId
                                       /\ rows[i].phone = normalizedPhone}
    IN  IF found = {} THEN 0 ELSE rows[CHOOSE i \in found : TRUE].id

NewCustomer(rows, businessId, normalizedPhone) ==
    [id |-> Len(rows) + 1, businessId |-> businessId, phone |-> normalizedPhone,
     optIn |-> "UNSET"]

\* a call that no other call interleaves with
findOrCreateWhatsAppCustomer(rows, phone, businessId) ==
    LET normalizedPhone == formatE164Phone(phone)
        existing == ExistingCustomer(rows, businessId, normalizedPhone)
    IN  IF existing # 0
        THEN [customers |-> rows, customerId |-> existing, created |-> FALSE]
        ELSE [customers |-> Append(rows, NewCustomer(rows, businessId, normalizedPhone)),
              customerId |-> Len(rows) + 1, created |-> TRUE]

(***************************************************************************)
(* WhatsApp webhook.  A request is [signer, to, from, body]:               *)
(* signer is the auth token its X-Twilio-Signature was computed with       *)
(* ("none": no header, "attacker": a token that is neither a business's    *)
(* nor the global one), body the sequence of the lower-cased words of      *)
(* Body.  POST returns the response status, the table it leaves and, in    *)
(* order, what it did: "validated", "update", "create", "send".            *)
(***************************************************************************)
STOP_KEYWORDS == {"stop", "unsubscribe", "cancel", "end", "quit", "stopp", "abmelden"}
START_KEYWORDS == {"start", "subscribe", "anmelden"}

\* the businesses table: id (also the name of its auth token), slug and
\* settings.twilioWhatsappNumber
Businesses ==
    { [id |-> "b1", slug |-> "alpha", number |-> <<"+", "1", "4", "1", "5", "5", "2", "3", "8", "8", "8", "6">>],
      [id |-> "b2", slug |-> "bee", number |-> <<>>] }

findBusinessByWhatsAppNumber(phone) ==
    IF \E b \in Businesses : b.number = phone
    THEN (CHOOSE b \in Businesses : b.number = phone).id
    ELSE "none"

\* body.match(/^([A-Z]+)\s+(.+)$/i): the business whose slug is the first word
BusinessBySlug(body) ==
    IF Len(body) >= 2 /\ \E b \in Businesses : b.slug = body[1]
    THEN (CHOOSE b \in Businesses : b.slug = body[1]).id
    ELSE "none"

validateTwilioWebhook(authToken, signer) == signer = authToken

SetOptIn(rows, phoneNumber, status) ==
    [i \in 1..Len(rows) |->
        IF rows[i].phone = phoneNumber THEN [rows[i] EXCEPT !.optIn = status] ELSE rows[i]]

POST(req, rows) ==
    LET byNumber == findBusinessByWhatsAppNumber(formatE164Phone(req.to))
        businessId == IF byNumber # "none" THEN byNumber ELSE BusinessBySlug(req.body)
        isValid == \/ validateTwilioWebhook(businessId, req.signer)
                   \/ validateTwilioWebhook("global", req.signer)
        phoneNumber == formatE164Phone(req.from)
        keyword == IF Len(req.body) = 1 THEN req.body[1] ELSE ""
        customer == findOrCreateWhatsAppCustomer(rows, phoneNumber, businessId)
    IN  IF req.signer = "none"
        THEN [status |-> 403, log |-> <<>>, customers |-> rows]
        ELSE IF businessId = "none"
        THEN [status |-> 200, log |-> <<"send">>, customers |-> rows]
        ELSE IF ~isValid
        THEN [status |-> 403, log |-> <<>>, customers |-> rows]
        ELSE IF keyword \in STOP_KEYWORDS
        THEN [status |-> 200, log |-> <<"validated", "update">>,
              customers |-> SetOptIn(rows, phoneNumber, "OPTED_OUT")]
        ELSE IF keyword \in START_KEYWORDS
        THEN [status |-> 200, log |-> <<"validated", "update", "send">>,
              customers |-> SetOptIn(rows, phoneNumber, "OPTED_IN")]
        ELSE [status |-> 200,
              log |-> <<"validated">>
                      \o (IF customer.created THEN <<"create">> ELSE <<>>)
                      \o <<"send">>,
              customers |-> customer.customers]

WhatsAppIdle ==
    /\ customers = <<>>
    /\ wResponse = [signer |-> "none", status |-> 0, log |-> <<>>]
    /\ wCalls = [c \in 1..NumCalls |->
                    [pc |-> "idle", businessId |-> "none", phone |-> <<>>,
                     customerId |-> 0, created |-> FALSE]]

(***************************************************************************)
(* HTML parser.  The text cheerio extracts is a sequence of runs           *)
(* [n, text, ch]: n characters ch, "x" standing for any character that is  *)
(* not white space (text = TRUE), " " and "\n" for the white space the     *)
(* normalisation leaves: single spaces, single newlines and paragraph      *)
(* breaks of two newlines.  Offsets count from 0; a page is kept as the    *)
(* offsets [start, end) of its content.                                    *)
(***************************************************************************)
CHARS_PER_PAGE == 5000

\* the offsets of the characters that are white space (text = FALSE) or
\* newlines (ch given)
RECURSIVE Offsets(_, _, _)
Offsets(runs, from, ch) ==
    IF runs = <<>> THEN {}
    ELSE (IF (ch = "" /\ ~runs[1].text) \/ (ch # "" /\ runs[1].ch = ch)
          THEN from..(from + runs[1].n - 1) ELSE {})
         \cup Offsets(Tail(runs), from + runs[1].n, ch)

\* content.slice(from, to).lastIndexOf('\n\n')
lastIndexOf(content, from, to) ==
    LET newlines == Offsets(content, 0, "\n")
        found == {q \in newlines : q >= from /\ q + 1 < to /\ (q + 1) \in newlines}
    IN  IF found = {} THEN -1
        ELSE (CHOOSE q \in found : \A r \in found : r <= q) - from

\* content.slice(from, to).trim(), as offsets
RECURSIVE trimSlice(_, _, _)
trimSlice(space, from, to) ==
    IF from < to /\ from \in space THEN trimSlice(space, from + 1, to)
    ELSE IF from < to /\ (to - 1) \in space THEN trimSlice(space, from, to - 1)
    ELSE [start |-> from, end |-> to]

NextOffset_noRewind(i, lastParagraph) == i + 2

\* line 207: i = i - (CHARS_PER_PAGE - lastParagraph) + 2
NextOffset(i, lastParagraph) == i - (CHARS_PER_PAGE - lastParagraph) + 2

\* for (let i = 0; i < content.length; i += CHARS_PER_PAGE), from offset i
\* on; steps is the number of iterations the loop may still take before it
\* counts as not terminating.
RECURSIVE HtmlLoop(_, _, _, _)
HtmlLoop(content, i, pushed, steps) ==
    IF i >= Count(content) THEN [pages |-> pushed, terminated |-> TRUE]
    ELSE IF steps = 0 THEN [pages |-> pushed, terminated |-> FALSE]
    ELSE LET end == Min(i + CHARS_PER_PAGE, Count(content))
             lastParagraph == IF i + CHARS_PER_PAGE < Count(content)
                              THEN lastIndexOf(content, i, end) ELSE -1
             breaks == lastParagraph * 10 > CHARS_PER_PAGE * 7
             pageContent == trimSlice(Offsets(content, 0, ""), i,
                                      IF breaks THEN i + lastParagraph ELSE end)
             j == IF breaks THEN NextOffset(i, lastParagraph) ELSE i
         IN  HtmlLoop(content, j + CHARS_PER_PAGE,
                      IF pageContent.start < pageContent.end
                      THEN Append(pushed, [pageNumber |-> Len(pushed) + 1,
                                           start |-> pageContent.start,
                                           end |-> pageContent.end])
                      ELSE pushed,
                      steps - 1)

extractWithHtml(body) ==
    LET content == trim(body) IN
    IF Count(content) = 0
    THEN [pages |-> <<>>, totalPages |-> 0, content |-> content, terminated |-> TRUE]
    ELSE LET looped == HtmlLoop(content, 0, <<>>, Count(content))
             pushed == IF Len(looped.pages) = 0
                       THEN <<[pageNumber |-> 1, start |-> 0, end |-> Count(content)]>>
                       ELSE looped.pages
         IN  [pages |-> pushed, totalPages |-> Len(pushed), content |-> content,
              terminated |-> looped.terminated]

HtmlIdle == hBody = <<>> /\ hResult = extractWithHtml(<<>>)

(***************************************************************************)
(* Chunker.  A page is [pageNumber, sentences], its sentences what          *)
(* splitIntoSentences returns for its cleaned text (none for a page of     *)
(* white space); a sentence is [id, length], id its position in the        *)
(* document.                                                               *)
(***************************************************************************)
DEFAULT_OPTIONS == [maxChunkSize |-> 1000, minChunkSize |-> 200, overlapSize |-> 100]

RECURSIVE SumLength(_)
SumLength(sentences) ==
    IF sentences = <<>> THEN 0 ELSE sentences[1].length + SumLength(Tail(sentences))

\* sentences.join(' ').length
JoinedLength(sentences) ==
    IF sentences = <<>> THEN 0 ELSE SumLength(sentences) + Len(sentences) - 1

createChunk(sentences, chunkIndex, pageStart, pageEnd) ==
    [content |-> JoinedLength(sentences), chunkIndex |-> chunkIndex,
     pageStart |-> pageStart, pageEnd |-> pageEnd, sentences |-> sentences]

RECURSIVE OverlapLoop(_, _, _, _, _)
OverlapLoop(sentences, overlapSize, i, totalSize, overlapSentences) ==
    IF i < 1 THEN overlapSentences
    ELSE IF totalSize + sentences[i].length > overlapSize THEN overlapSentences
    ELSE OverlapLoop(sentences, overlapSize, i - 1, totalSize + sentences[i].length,
                     <<sentences[i]>> \o overlapSentences)

getOverlapSentences(sentences, overlapSize) ==
    OverlapLoop(sentences, overlapSize, Len(sentences), 0, <<>>)

ChunkerStart ==
    [chunks |-> <<>>, currentChunkSentences |-> <<>>, currentChunkSize |-> 0,
     currentPageStart |-> 1, currentPageEnd |-> 1, chunkIndex |-> 0]

\* lines 64-87: the chunk is closed when the sentence would not fit
CloseChunk(c, page, sentence, options) ==
    IF c.currentChunkSize + sentence.length > options.maxChunkSize
       /\ Len(c.currentChunkSentences) > 0
    THEN LET chunk == createChunk(c.currentChunkSentences, c.chunkIndex,
                                  c.currentPageStart, c.currentPageEnd)
             kept == chunk.content >= options.minChunkSize
             overlapSentences == getOverlapSentences(c.currentChunkSentences,
                                                     options.overlapSize)
         IN  [c EXCEPT !.chunks = IF kept THEN Append(@, chunk) ELSE @,
                       !.chunkIndex = IF kept THEN @ + 1 ELSE @,
                       !.currentChunkSentences = overlapSentences,
                       !.currentChunkSize = JoinedLength(overlapSentences),
                       !.currentPageStart = page.pageNumber]
    ELSE c

AddSentence_stalePageEnd(c, page, sentence) ==
    [c EXCEPT !.currentChunkSentences = Append(@, sentence),
              !.currentChunkSize = @ + sentence.length]

\* lines 89-92
AddSentence(c, page, sentence) ==
    [c EXCEPT !.currentChunkSentences = Append(@, sentence),
              !.currentChunkSize = @ + sentence.length,
              !.currentPageEnd = page.pageNumber]

RECURSIVE SentenceLoop(_, _, _, _)
SentenceLoop(c, page, sentences, options) ==
    IF sentences = <<>> THEN c
    ELSE SentenceLoop(AddSentence(CloseChunk(c, page, sentences[1], options),
                                  page, sentences[1]),
                      page, Tail(sentences), options)

RECURSIVE ChunkPageLoop(_, _, _)
ChunkPageLoop(c, pageList, options) ==
    IF pageList = <<>> THEN c
    ELSE ChunkPageLoop(SentenceLoop(c, pageList[1], pageList[1].sentences, options),
                       Tail(pageList), options)

\* the returned chunks, and with them the sentences left in the buffer when
\* the final chunk was not added
chunkPagesWithProvenance(pageList, options) ==
    LET c == ChunkPageLoop(ChunkerStart, pageList, options)
        chunk == createChunk(c.currentChunkSentences, c.chunkIndex,
                             c.currentPageStart, c.currentPageEnd)
        final == Len(c.currentChunkSentences) > 0
                 /\ chunk.content >= options.minChunkSize
    IN  [chunks |-> IF final THEN Append(c.chunks, chunk) ELSE c.chunks,
         remainder |-> IF final THEN <<>> ELSE c.currentChunkSentences]

ChunkerIdle == kPages = <<>> /\ kOut = chunkPagesWithProvenance(<<>>, DEFAULT_OPTIONS)

(***************************************************************************)
(* Rows.                                                                   *)
(***************************************************************************)
JOB_MAX_ATTEMPTS == 3
OUTBOX_MAX_ATTEMPTS == 3
LEASE_DURATION == 2
BACKOFF_BASE == 1
BACKOFF_CAP == 2
EMBEDDING_DIM == 1536
DEFAULT_BATCH_SIZE == 50

NoJob ==
    [status |-> "none", stage |-> "none", attempts |-> 0, errorCode |-> "none",
     nextRetryAt |-> NULL, completedAt |-> FALSE]

NoEvent ==
    [exists |-> FALSE, processedAt |-> FALSE, attempts |-> 0, nextRetryAt |-> NULL]

NoMeta == [title |-> "", labels |-> <<>>]

Idle == [pc |-> "idle", doc |-> "-"]

Terminal == {"done", "failed", "cancelled"}
NonTerminal == {"queued", "processing", "retry_ready"}

PipelineInit ==
    /\ now = 0
    /\ docStatus = [d \in Docs |-> "none"]
    /\ job = [d \in Docs |-> NoJob]
    /\ outbox = [d \in Docs |-> NoEvent]
    /\ leaseExpiry = [d \in Docs |-> NULL]
    /\ pages = [d \in Docs |-> <<>>]
    /\ chunks = [d \in Docs |-> <<>>]
    /\ embeddings = [d \in Docs |-> <<>>]
    /\ worker = [w \in Workers |-> Idle]
    /\ deletedIn = [d \in Docs |-> "none"]
    /\ version = [d \in Docs |-> FALSE]
    /\ docMeta = [d \in Docs |-> NoMeta]
    /\ initStatus = [d \in Docs |-> 0]

GatesIdle == qPages = <<>> /\ qResult = checkExtractionQuality(<<>>)
ClassifyIdle == cMsg = <<>> /\ cParts = 0 /\ cCode = classifyError(<<>>)

(***************************************************************************)
(* POST /api/documents/upload/init: 400 when the type is unsupported,      *)
(* otherwise the inserts of document (active), version 1 and job (queued,  *)
(* pending_upload), then the presigned URL.  The statements run one after  *)
(* the other outside a transaction; fault names the one that throws        *)
(* ("none": the request succeeds), after which the handler answers 500.    *)
(***************************************************************************)
InitSteps == <<"document", "version", "job", "url">>

\* the statement named step ran to its end
Reached(step, fault) ==
    \/ fault = "none"
    \/ \E i, k \in 1..Len(InitSteps) :
          InitSteps[i] = step /\ InitSteps[k] = fault /\ i < k

UploadInit(d, title, contentType, ext, fault) ==
    /\ docStatus[d] = "none"
    /\ IF getSourceType(contentType, ext) = "null"
       THEN /\ initStatus' = [initStatus EXCEPT ![d] = 400]
            /\ UNCHANGED <<docStatus, docMeta, version, job>>
       ELSE /\ initStatus' = [initStatus EXCEPT ![d] = IF fault = "none" THEN 200 ELSE 500]
            /\ IF Reached("document", fault)
               THEN /\ docStatus' = [docStatus EXCEPT ![d] = "active"]
                    /\ docMeta' = [docMeta EXCEPT ![d] = [NoMeta EXCEPT !.title = title]]
               ELSE UNCHANGED <<docStatus, docMeta>>
            /\ IF Reached("version", fault)
               THEN version' = [version EXCEPT ![d] = TRUE]
               ELSE UNCHANGED version
            /\ IF Reached("job", fault)
               THEN job' = [job EXCEPT ![d] =
                              [NoJob EXCEPT !.status = "queued", !.stage = "pending_upload"]]
               ELSE UNCHANGED job
    /\ UNCHANGED <<now, outbox, leaseExpiry, pages, chunks, embeddings, worker, deletedIn>>
    /\ UNCHANGED <<gateVars, classifyVars, utilVars>>

(***************************************************************************)
(* Upload Complete: pending_upload -> uploaded, enqueue the outbox event.  *)
(***************************************************************************)
UploadComplete(d) ==
    /\ job[d].status = "queued"
    /\ job[d].stage = "pending_upload"
    /\ job' = [job EXCEPT ![d].stage = "uploaded"]
    /\ outbox' = [outbox EXCEPT ![d] = [NoEvent EXCEPT !.exists = TRUE]]
    /\ UNCHANGED <<now, docStatus, leaseExpiry, pages, chunks, embeddings, worker, deletedIn>>
    /\ UNCHANGED <<apiVars, gateVars, classifyVars, utilVars>>

(***************************************************************************)
(* DELETE /api/documents/[id]: already deleted -> success without change;  *)
(* otherwise mark deleted_pending and fail the jobs the WHERE clause       *)
(* selects (status = 'queued').                                            *)
(***************************************************************************)
DeleteSelectsJob_any(j) == j.status # "none"

DeleteMarksDocument_forgotten(status) == status

DeleteMarksDocument(status) == "deleted_pending"

DeleteSelectsJob(j) == j.status = "queued"

DELETE(d) ==
    /\ docStatus[d] # "none"
    /\ IF docStatus[d] \in {"deleted", "deleted_pending"}
       THEN UNCHANGED <<docStatus, job, deletedIn>>
       ELSE /\ docStatus' = [docStatus EXCEPT ![d] = DeleteMarksDocument(@)]
            /\ job' = [job EXCEPT ![d] =
                          IF version[d] /\ DeleteSelectsJob(job[d])
                          THEN [@ EXCEPT !.status = "failed",
                                         !.errorCode = "document_deleted"]
                          ELSE @]
            /\ deletedIn' = [deletedIn EXCEPT ![d] =
                                IF job[d].status = "processing"
                                THEN job[d].stage ELSE "other"]
    /\ UNCHANGED <<now, outbox, leaseExpiry, pages, chunks, embeddings, worker>>
    /\ UNCHANGED <<apiVars, gateVars, classifyVars, utilVars>>

(***************************************************************************)
(* PATCH /api/documents/[id]: 404 without a document row, otherwise the    *)
(* fields given in the body are written.  A field is [given, value].       *)
(***************************************************************************)
PATCH(d, title, labels) ==
    /\ IF docStatus[d] = "none"
       THEN UNCHANGED docMeta
       ELSE docMeta' = [docMeta EXCEPT
                           ![d].title = IF title.given THEN title.value ELSE @,
                           ![d].labels = IF labels.given THEN labels.value ELSE @]
    /\ UNCHANGED <<now, docStatus, job, outbox, leaseExpiry, pages, chunks, embeddings,
                   worker, deletedIn, version, initStatus>>
    /\ UNCHANGED <<gateVars, classifyVars, utilVars>>

(***************************************************************************)
(* Embedding client.  A provider response is [ok, error]: when ok it       *)
(* carries one embedding of the model's dimension per input, in order;     *)
(* otherwise generateEmbeddings throws with the provider's error text.     *)
(***************************************************************************)
EMBEDDINGS_FAILED == <<"O", "p", "e", "n", "R", "o", "u", "t", "e", "r", " ", "e", "m", "b", "e", "d", "d", "i", "n", "g", "s", " ", "f", "a", "i", "l", "e", "d", ":", " ">>

ProviderData(texts) ==
    [i \in 1..Len(texts) |-> [embedding |-> [of |-> texts[i], dim |-> EMBEDDING_DIM]]]

generateEmbeddings_swallow(texts, response) ==
    IF Len(texts) = 0
    THEN [threw |-> FALSE, message |-> <<>>, value |-> <<>>, calls |-> <<>>]
    ELSE IF ~response.ok
         THEN [threw |-> FALSE, message |-> <<>>, value |-> <<>>, calls |-> <<texts>>]
         ELSE LET data == ProviderData(texts)
              IN  [threw |-> FALSE, message |-> <<>>,
                   value |-> [i \in 1..Len(data) |-> data[i].embedding],
                   calls |-> <<texts>>]

\* calls: the inputs of the requests sent to the provider
generateEmbeddings(texts, response) ==
    IF Len(texts) = 0
    THEN [threw |-> FALSE, message |-> <<>>, value |-> <<>>, calls |-> <<>>]
    ELSE IF ~response.ok
         THEN [threw |-> TRUE, message |-> EMBEDDINGS_FAILED \o response.error,
               value |-> <<>>, calls |-> <<texts>>]
         ELSE LET data == ProviderData(texts)
              IN  [threw |-> FALSE, message |-> <<>>,
                   value |-> [i \in 1..Len(data) |-> data[i].embedding],
                   calls |-> <<texts>>]

RECURSIVE BatchLoop(_, _, _, _, _, _)
BatchLoop(texts, batchSize, i, allEmbeddings, sent, responses) ==
    IF i >= Len(texts)
    THEN [threw |-> FALSE, message |-> <<>>, value |-> allEmbeddings, calls |-> sent]
    ELSE LET batch == SubSeq(texts, i + 1, Min(i + batchSize, Len(texts)))
             r == generateEmbeddings(batch, responses[Len(sent) + 1])
         IN  IF r.threw THEN [r EXCEPT !.calls = sent \o @]
             ELSE BatchLoop(texts, batchSize, i + batchSize,
                            allEmbeddings \o r.value, sent \o r.calls, responses)

generateEmbeddingsBatched_oneRequest(texts, batchSize, responses) ==
    BatchLoop(texts, Len(texts) + batchSize, 0, <<>>, <<>>, responses)

generateEmbeddingsBatched(texts, batchSize, responses) ==
    BatchLoop(texts, batchSize, 0, <<>>, <<>>, responses)

(***************************************************************************)
(* Job state machine.                                                      *)
(***************************************************************************)
Retryable(code) == code \in {"provider_rate_limited", "timeout", "internal"}

Backoff(attempts) == Min(BACKOFF_BASE * Pow2(attempts - 1), BACKOFF_CAP)

OnLease_restart(j) ==
    IF j.status \in Terminal THEN j
    ELSE [j EXCEPT !.status = "processing", !.stage = "parsing",
                   !.attempts = @ + 1, !.nextRetryAt = NULL]

OnLease(j) ==
    IF j.status \in Terminal THEN j
    ELSE [j EXCEPT !.status = "processing",
                   !.stage = IF j.status = "queued" THEN "parsing" ELSE @,
                   !.attempts = @ + 1,
                   !.nextRetryAt = NULL]

OnStage(j, stage) ==
    IF j.status = "processing" THEN [j EXCEPT !.stage = stage] ELSE j

OnDone(j) ==
    IF j.status = "processing" /\ j.stage = "embedding"
    THEN [j EXCEPT !.status = "done", !.completedAt = TRUE]
    ELSE j

OnFailed(j, code) ==
    IF j.status \in Terminal THEN j
    ELSE [j EXCEPT !.status = "failed", !.errorCode = code, !.completedAt = TRUE]

OnError_alwaysRetry(j, code, t) ==
    IF j.status # "processing" THEN j
    ELSE IF Retryable(code)
    THEN [j EXCEPT !.status = "retry_ready", !.errorCode = code,
                   !.nextRetryAt = t + Backoff(j.attempts)]
    ELSE OnFailed(j, code)

OnError(j, code, t) ==
    IF j.status # "processing" THEN j
    ELSE IF Retryable(code) /\ j.attempts < JOB_MAX_ATTEMPTS
    THEN [j EXCEPT !.status = "retry_ready", !.errorCode = code,
                   !.nextRetryAt = t + Backoff(j.attempts)]
    ELSE OnFailed(j, code)

(***************************************************************************)
(* Outbox dispatcher.                                                      *)
(***************************************************************************)
Leased(expiry, t) == expiry # NULL /\ expiry > t

Visible(e, expiry, t) ==
    /\ e.exists
    /\ ~e.processedAt
    /\ (e.nextRetryAt = NULL \/ e.nextRetryAt <= t)
    /\ e.attempts < OUTBOX_MAX_ATTEMPTS
    /\ ~Leased(expiry, t)

LeaseCas_blind(e, expiry, t) == e.exists

LeaseCas(e, expiry, t) == Visible(e, expiry, t)

Holding == {"invoked", "running", "boundary", "commit"}

Poll(w, d) ==
    /\ worker[w].pc = "idle"
    /\ Visible(outbox[d], leaseExpiry[d], now)
    /\ worker' = [worker EXCEPT ![w] = [pc |-> "polled", doc |-> d]]
    /\ UNCHANGED <<now, docStatus, job, outbox, leaseExpiry, pages, chunks, embeddings, deletedIn>>
    /\ UNCHANGED <<apiVars, gateVars, classifyVars, utilVars>>

Lease(w) ==
    /\ worker[w].pc = "polled"
    /\ LET d == worker[w].doc IN
       IF LeaseCas(outbox[d], leaseExpiry[d], now)
       THEN /\ outbox' = [outbox EXCEPT ![d].attempts = @ + 1]
            /\ leaseExpiry' = [leaseExpiry EXCEPT ![d] = now + LEASE_DURATION]
            /\ job' = [job EXCEPT ![d] = OnLease(@)]
            /\ worker' = [worker EXCEPT ![w].pc = "invoked"]
       ELSE /\ worker' = [worker EXCEPT ![w] = Idle]
            /\ UNCHANGED <<outbox, leaseExpiry, job>>
    /\ UNCHANGED <<now, docStatus, pages, chunks, embeddings, deletedIn>>
    /\ UNCHANGED <<apiVars, gateVars, classifyVars, utilVars>>

Commit(w) ==
    /\ worker[w].pc = "commit"
    /\ outbox' = [outbox EXCEPT ![worker[w].doc].processedAt = TRUE]
    /\ leaseExpiry' = [leaseExpiry EXCEPT ![worker[w].doc] = NULL]
    /\ worker' = [worker EXCEPT ![w] = Idle]
    /\ UNCHANGED <<now, docStatus, job, pages, chunks, embeddings, deletedIn>>
    /\ UNCHANGED <<apiVars, gateVars, classifyVars, utilVars>>

Crash(w) ==
    /\ worker[w].pc # "idle"
    /\ worker' = [worker EXCEPT ![w] = Idle]
    /\ UNCHANGED <<now, docStatus, job, outbox, leaseExpiry, pages, chunks, embeddings, deletedIn>>
    /\ UNCHANGED <<apiVars, gateVars, classifyVars, utilVars>>

(* The stage deadlines keep a live worker's run inside its lease: the clock *)
(* does not pass the lease expiry of a row a live worker is working on.     *)
Tick ==
    /\ now < MaxTime
    /\ \A w \in Workers :
          worker[w].pc \in Holding => leaseExpiry[worker[w].doc] > now + 1
    /\ now' = now + 1
    /\ UNCHANGED <<docStatus, job, outbox, leaseExpiry, pages, chunks, embeddings, worker, deletedIn>>
    /\ UNCHANGED <<apiVars, gateVars, classifyVars, utilVars>>

(***************************************************************************)
(* Ingestion coordinator.  Every persist step is one transaction that      *)
(* deletes the version's rows of that stage and inserts the new ones.      *)
(***************************************************************************)
PersistRows_insertOnly(old, new) == old \o new

PersistRows(old, new) == new

MSG ==
    [ timed_out |-> <<"R", "e", "q", "u", "e", "s", "t", " ", "t", "i", "m", "e", "d", " ", "o", "u", "t">>,
      corrupt |-> <<"I", "n", "v", "a", "l", "i", "d", " ", "P", "D", "F", " ", "s", "t", "r", "u", "c", "t", "u", "r", "e">>,
      other |-> <<"U", "n", "e", "x", "p", "e", "c", "t", "e", "d", " ", "t", "o", "k", "e", "n">>,
      http_429 |-> <<"{", "'", "c", "o", "d", "e", "'", ":", "4", "2", "9", "}">> ]

ParseErrorMsgs == {MSG.timed_out, MSG.corrupt, MSG.other}
ChunkErrorMsgs == {MSG.timed_out}
ProviderResponses ==
    { [ok |-> TRUE, error |-> <<>>],
      [ok |-> FALSE, error |-> MSG.http_429],
      [ok |-> FALSE, error |-> MSG.timed_out] }

\* char counts of the pages a parser returned
ParseResults == { <<200, 200>>, <<0>>, <<3, 3>> }

NormalizedPages(counts) ==
    [i \in 1..Len(counts) |-> [pageNumber |-> i, charCount |-> counts[i]]]

HandleError(w, d, code) ==
    LET j == OnError(job[d], code, now) IN
    /\ job' = [job EXCEPT ![d] = j]
    /\ IF j.status = "retry_ready"
       THEN /\ outbox' = [outbox EXCEPT ![d].nextRetryAt = j.nextRetryAt]
            /\ leaseExpiry' = [leaseExpiry EXCEPT ![d] = NULL]
            /\ worker' = [worker EXCEPT ![w] = Idle]
       ELSE /\ worker' = [worker EXCEPT ![w].pc = "commit"]
            /\ UNCHANGED <<outbox, leaseExpiry>>

Start(w) ==
    /\ worker[w].pc = "invoked"
    /\ LET d == worker[w].doc IN
       IF job[d].status \in Terminal
       THEN /\ worker' = [worker EXCEPT ![w].pc = "commit"]
            /\ UNCHANGED job
       ELSE IF docStatus[d] # "active"
       THEN /\ job' = [job EXCEPT ![d] = OnFailed(@, "document_deleted")]
            /\ worker' = [worker EXCEPT ![w].pc = "commit"]
       ELSE /\ job' = [job EXCEPT ![d] = OnStage(@, "parsing")]
            /\ worker' = [worker EXCEPT ![w].pc = "running"]
    /\ UNCHANGED <<now, docStatus, outbox, leaseExpiry, pages, chunks, embeddings, deletedIn>>
    /\ UNCHANGED <<apiVars, gateVars, classifyVars, utilVars>>

StageBegin(w) ==
    /\ worker[w].pc = "boundary"
    /\ LET d == worker[w].doc IN
       IF docStatus[d] # "active"
       THEN /\ job' = [job EXCEPT ![d] = OnFailed(@, "document_deleted")]
            /\ worker' = [worker EXCEPT ![w].pc = "commit"]
       ELSE /\ worker' = [worker EXCEPT ![w].pc = "running"]
            /\ UNCHANGED job
    /\ UNCHANGED <<now, docStatus, outbox, leaseExpiry, pages, chunks, embeddings, deletedIn>>
    /\ UNCHANGED <<apiVars, gateVars, classifyVars, utilVars>>

InStage(w, stage) ==
    /\ worker[w].pc = "running"
    /\ job[worker[w].doc].status = "processing"
    /\ job[worker[w].doc].stage = stage

ParseFail(w, msg) ==
    /\ InStage(w, "parsing")
    /\ HandleError(w, worker[w].doc, classifyError(msg))
    /\ UNCHANGED <<now, docStatus, pages, chunks, embeddings, deletedIn>>
    /\ UNCHANGED <<apiVars, gateVars, classifyVars, utilVars>>

ParseOk(w, counts) ==
    /\ InStage(w, "parsing")
    /\ LET d == worker[w].doc
           q == checkExtractionQuality(NormalizedPages(counts))
       IN  IF ~q.passed
           THEN /\ HandleError(w, d, q.errorCode)
                /\ UNCHANGED pages
           ELSE /\ pages' = [pages EXCEPT ![d] =
                                PersistRows(@, [i \in 1..Len(counts) |-> i])]
                /\ job' = [job EXCEPT ![d] = OnStage(@, "chunking")]
                /\ worker' = [worker EXCEPT ![w].pc = "boundary"]
                /\ UNCHANGED <<outbox, leaseExpiry>>
    /\ UNCHANGED <<now, docStatus, chunks, embeddings, deletedIn>>
    /\ UNCHANGED <<apiVars, gateVars, classifyVars, utilVars>>

ChunkFail(w, msg) ==
    /\ InStage(w, "chunking")
    /\ HandleError(w, worker[w].doc, classifyError(msg))
    /\ UNCHANGED <<now, docStatus, pages, chunks, embeddings, deletedIn>>
    /\ UNCHANGED <<apiVars, gateVars, classifyVars, utilVars>>

ChunkOk(w, n) ==
    /\ InStage(w, "chunking")
    /\ LET d == worker[w].doc IN
       /\ chunks' = [chunks EXCEPT ![d] = PersistRows(@, [i \in 1..n |-> i - 1])]
       /\ job' = [job EXCEPT ![d] = OnStage(@, "embedding")]
       /\ worker' = [worker EXCEPT ![w].pc = "boundary"]
    /\ UNCHANGED <<now, docStatus, outbox, leaseExpiry, pages, embeddings, deletedIn>>
    /\ UNCHANGED <<apiVars, gateVars, classifyVars, utilVars>>

EmbedEnd(w, response) ==
    /\ InStage(w, "embedding")
    /\ LET d == worker[w].doc
           texts == chunks[d]
           r == generateEmbeddingsBatched(texts, DEFAULT_BATCH_SIZE,
                                          [k \in 1..(Len(texts) + 1) |-> response])
       IN  IF r.threw
           THEN /\ HandleError(w, d, classifyError(r.message))
                /\ UNCHANGED embeddings
           ELSE /\ embeddings' = [embeddings EXCEPT ![d] =
                      PersistRows(@, [i \in 1..Min(Len(r.value), Len(texts)) |->
                                        [chunk |-> texts[i], dim |-> r.value[i].dim]])]
                /\ job' = [job EXCEPT ![d] = OnDone(@)]
                /\ worker' = [worker EXCEPT ![w].pc = "commit"]
                /\ UNCHANGED <<outbox, leaseExpiry>>
    /\ UNCHANGED <<now, docStatus, pages, chunks, deletedIn>>
    /\ UNCHANGED <<apiVars, gateVars, classifyVars, utilVars>>

(***************************************************************************)
(* A call of generateEmbeddingsBatched: n texts (the texts are 1..n),      *)
(* the batch size, and the request the provider rejects (0: none).         *)
(***************************************************************************)
BatchResponses(failAt, n) ==
    [k \in 1..(n + 1) |->
        IF k = failAt THEN [ok |-> FALSE, error |-> MSG.http_429]
        ELSE [ok |-> TRUE, error |-> <<>>]]

Batched(args) ==
    generateEmbeddingsBatched([i \in 1..args.n |-> i], args.batchSize,
                              BatchResponses(args.failAt, args.n))

BatchIdle ==
    /\ bArgs = [n |-> 0, batchSize |-> DEFAULT_BATCH_SIZE, failAt |-> 0]
    /\ bOut = Batched(bArgs)

Init == PipelineInit /\ GatesIdle /\ ClassifyIdle /\ RouterIdle /\ ParsersIdle
        /\ ChunkerIdle /\ BatchIdle /\ XlsxIdle /\ PhoneIdle /\ HtmlIdle /\ InitIdle
        /\ WhatsAppIdle

Next ==
    \/ \E d \in Docs, title \in InitTitles, ct \in ContentTypes, ext \in Extensions,
          fault \in Faults :
            UploadInit(d, title, ct, ext, fault)
    \/ \E d \in Docs : UploadComplete(d)
    \/ \E d \in Docs : DELETE(d)
    \/ \E w \in Workers, d \in Docs : Poll(w, d)
    \/ \E w \in Workers : Lease(w)
    \/ \E w \in Workers : Start(w)
    \/ \E w \in Workers : StageBegin(w)
    \/ \E w \in Workers, msg \in ParseErrorMsgs : ParseFail(w, msg)
    \/ \E w \in Workers, counts \in ParseResults : ParseOk(w, counts)
    \/ \E w \in Workers, msg \in ChunkErrorMsgs : ChunkFail(w, msg)
    \/ \E w \in Workers, n \in 0..NumChunks : ChunkOk(w, n)
    \/ \E w \in Workers, response \in ProviderResponses : EmbedEnd(w, response)
    \/ \E w \in Workers : Commit(w)
    \/ \E w \in Workers : Crash(w)
    \/ Tick

Spec == Init /\ [][Next]_vars

(***************************************************************************)
(* SpecLive: the pipeline under fair scheduling.  The clock keeps running  *)
(* after MaxTime: Elapse lets one more tick pass by moving every deadline  *)
(* one tick closer, which leaves all comparisons with the clock as they    *)
(* would be had the clock advanced.  Workers that have not crashed take    *)
(* their next step, a worker that polls again and again gets to lease      *)
(* (crashes do not hit it every time), and time passes; crashes, errors    *)
(* and API calls are free to happen or not.                                *)
(***************************************************************************)
Closer(deadline) == IF deadline = NULL \/ deadline = 0 THEN deadline ELSE deadline - 1

Elapse ==
    /\ now = MaxTime
    /\ \A w \in Workers :
          worker[w].pc \in Holding => leaseExpiry[worker[w].doc] > now + 1
    /\ leaseExpiry' = [d \in Docs |-> Closer(leaseExpiry[d])]
    /\ outbox' = [d \in Docs |-> [outbox[d] EXCEPT !.nextRetryAt = Closer(@)]]
    /\ job' = [d \in Docs |-> [job[d] EXCEPT !.nextRetryAt = Closer(@)]]
    /\ UNCHANGED <<now, docStatus, pages, chunks, embeddings, worker, deletedIn>>
    /\ UNCHANGED <<apiVars, gateVars, classifyVars, utilVars>>

\* The steps fairness speaks of.  ParseFail and ChunkFail are enabled exactly
\* when ParseOk and ChunkOk are, and every stage outcome moves the worker on.
WorkerStep(w) ==
    \/ \E d \in Docs : Poll(w, d)
    \/ Lease(w)
    \/ Start(w)
    \/ StageBegin(w)
    \/ \E counts \in ParseResults : ParseOk(w, counts)
    \/ \E n \in 0..NumChunks : ChunkOk(w, n)
    \/ \E response \in ProviderResponses : EmbedEnd(w, response)
    \/ Commit(w)

NextLive == Next \/ Elapse

SpecLive ==
    /\ Init
    /\ [][NextLive]_vars
    /\ WF_vars(Tick \/ Elapse)
    /\ \A w \in Workers : WF_vars(WorkerStep(w)) /\ SF_vars(Lease(w))

(***************************************************************************)
(* SpecDocs: the document API alone (Upload Init, Upload Complete, PATCH,  *)
(* DELETE).                                                                *)
(***************************************************************************)
PatchTitles ==
    { [given |-> FALSE, value |-> ""], [given |-> TRUE, value |-> "Menu"],
      [given |-> TRUE, value |-> "Menu 2026"], [given |-> TRUE, value |-> "Lunch"],
      [given |-> TRUE, value |-> ""] }

PatchLabels ==
    { [given |-> FALSE, value |-> <<>>], [given |-> TRUE, value |-> <<>>],
      [given |-> TRUE, value |-> <<"food">>],
      [given |-> TRUE, value |-> <<"food", "prices">>] }

NextDocs ==
    \/ \E d \in Docs, title \in InitTitles, ct \in ContentTypes, ext \in Extensions,
          fault \in Faults :
            UploadInit(d, title, ct, ext, fault)
    \/ \E d \in Docs : UploadComplete(d)
    \/ \E d \in Docs : DELETE(d)
    \/ \E d \in Docs, title \in PatchTitles, labels \in PatchLabels : PATCH(d, title, labels)

SpecDocs == Init /\ [][NextDocs]_vars

(***************************************************************************)
(* SpecGates: page lists built page by page, gated after every change.     *)
(***************************************************************************)
CharCounts == {0, 5, 11, 30, 200}

AddPage(c) ==
    /\ Len(qPages) < MaxPages
    /\ qPages' = Append(qPages, [pageNumber |-> Len(qPages) + 1, charCount |-> c])
    /\ qResult' = checkExtractionQuality(qPages')
    /\ UNCHANGED <<pipelineVars, classifyVars, utilVars>>

ResetPages ==
    /\ qPages # <<>>
    /\ qPages' = <<>>
    /\ qResult' = checkExtractionQuality(qPages')
    /\ UNCHANGED <<pipelineVars, classifyVars, utilVars>>

NextGates == (\E c \in CharCounts : AddPage(c)) \/ ResetPages

SpecGates == Init /\ [][NextGates]_vars

(***************************************************************************)
(* SpecClassify: error messages put together from fragments, among them    *)
(* every keyword in mixed case and pieces that form a keyword only when    *)
(* joined.                                                                 *)
(***************************************************************************)
Fragments ==
    { <<"R", "a", "t", "e", " ", "L", "i", "m", "i", "t">>,
      <<"4", "2", "9">>,
      <<"4">>,
      <<"2", "9">>,
      <<"T", "o", "o", " ", "M", "a", "n", "y">>,
      <<"T", "I", "M", "E", "O", "U", "T">>,
      <<"t", "i", "m", "e", "d", " ", "o", "u", "t">>,
      <<"t", "i", "m", "e">>,
      <<"o", "u", "t">>,
      <<"A", "b", "o", "r", "t", "e", "d">>,
      <<"I", "n", "v", "a", "l", "i", "d", " ", "P", "D", "F">>,
      <<"c", "o", "r", "r", "u", "p", "t">>,
      <<"b", "a", "d", " ", "X", "R", "e", "f">>,
      <<"U", "n", "s", "u", "p", "p", "o", "r", "t", "e", "d">>,
      <<"u", "n">>,
      <<"s", "u", "p", "p", "o", "r", "t", "e", "d">>,
      <<"u", "n", "k", "n", "o", "w", "n", " ", "f", "o", "r", "m", "a", "t">>,
      <<"n", "o", "t", " ">>,
      <<"t", "o", "o", " ", "l", "a", "r", "g", "e">>,
      <<"s", "i", "z", "e", " ", "l", "i", "m", "i", "t">>,
      <<"M", "e", "m", "o", "r", "y">>,
      <<"e", "r", "r", "o", "r", ":", " ">>,
      <<"x">> }

AppendFragment(f) ==
    /\ cParts < MaxFrags
    /\ cMsg' = cMsg \o f
    /\ cParts' = cParts + 1
    /\ cCode' = classifyError(cMsg')
    /\ UNCHANGED <<pipelineVars, gateVars, utilVars>>

ResetMessage ==
    /\ cParts > 0
    /\ cMsg' = <<>>
    /\ cParts' = 0
    /\ cCode' = classifyError(cMsg')
    /\ UNCHANGED <<pipelineVars, gateVars, utilVars>>

NextClassify == (\E f \in Fragments : AppendFragment(f)) \/ ResetMessage

SpecClassify == Init /\ [][NextClassify]_vars

(***************************************************************************)
(* SpecRouter: parseDocument on every pair of a MIME type and a source     *)
(* type of the sets below, the error of a failed call classified.          *)
(***************************************************************************)
MimeTypes ==
    DOMAIN PARSER_MAP \cup DOMAIN ObjectPrototype \cup
    { <<>>,
      <<"a", "p", "p", "l", "i", "c", "a", "t", "i", "o", "n", "/", "o", "c", "t", "e", "t", "-", "s", "t", "r", "e", "a", "m">>,
      <<"i", "m", "a", "g", "e", "/", "p", "n", "g">>,
      <<"a", "p", "p", "l", "i", "c", "a", "t", "i", "o", "n", "/", "z", "i", "p">>,
      <<"i", "m", "a", "g", "e", "/", "x", "-", "4", "2", "9">>,
      <<"a", "p", "p", "l", "i", "c", "a", "t", "i", "o", "n", "/", "x", "-", "t", "i", "m", "e", "o", "u", "t">> }

SourceTypes ==
    DOMAIN SOURCE_TYPE_FALLBACK \cup
    { <<>>, <<"p", "n", "g">>, <<"z", "i", "p">>, <<"c", "o", "n", "s", "t", "r", "u", "c", "t", "o", "r">> }

Route(mimeType, sourceType) ==
    /\ rMime' = mimeType
    /\ rSource' = sourceType
    /\ rResult' = Routed(mimeType, sourceType)
    /\ UNCHANGED <<pipelineVars, gateVars, classifyVars, parserVars, chunkerVars, batchVars, xlsxVars, phoneVars, htmlVars, initVars, whatsappVars>>

NextRouter == \E m \in MimeTypes, t \in SourceTypes : Route(m, t)

SpecRouter == Init /\ [][NextRouter]_vars

(***************************************************************************)
(* SpecInit: Upload Init requests, each followed by the worker's call of   *)
(* parseDocument with the stored mimeType and sourceType.                  *)
(***************************************************************************)
InitRequest(contentType, ext, stringified) ==
    /\ uInit = NoRequest
    /\ LET sourceType == getSourceType(contentType, ext)
           request == [NoRequest EXCEPT !.contentType = contentType, !.ext = ext]
       IN  uInit' =
             IF sourceType = "null"
             THEN [request EXCEPT !.status = 400]
             ELSE IF sourceType \notin DOMAIN ST /\ ~stringified
             THEN [request EXCEPT !.status = 500]
             ELSE [request EXCEPT !.status = 200, !.job = TRUE,
                                  !.mimeType = ContentTypeChars[contentType],
                                  !.sourceType = StoredSourceType(sourceType)]
    /\ UNCHANGED <<pipelineVars, gateVars, classifyVars, routerVars, parserVars, chunkerVars, batchVars, xlsxVars, phoneVars, htmlVars, whatsappVars>>

RouteJob ==
    /\ uInit.job
    /\ ~uInit.routed
    /\ uInit' = [uInit EXCEPT !.routed = TRUE,
                              !.result = Routed(uInit.mimeType, uInit.sourceType)]
    /\ UNCHANGED <<pipelineVars, gateVars, classifyVars, routerVars, parserVars, chunkerVars, batchVars, xlsxVars, phoneVars, htmlVars, whatsappVars>>

ResetInit ==
    /\ uInit # NoRequest
    /\ uInit' = NoRequest
    /\ UNCHANGED <<pipelineVars, gateVars, classifyVars, routerVars, parserVars, chunkerVars, batchVars, xlsxVars, phoneVars, htmlVars, whatsappVars>>

NextInit ==
    \/ \E m \in InitContentTypes, e \in InitExtensions, b \in BOOLEAN :
          InitRequest(m, e, b)
    \/ RouteJob
    \/ ResetInit

SpecInit == Init /\ [][NextInit]_vars

(***************************************************************************)
(* SpecParsers: texts put together run by run, parsed after every change.  *)
(***************************************************************************)
RunLengths == {1, 50, 100, 9900}

AppendRun(n, text) ==
    /\ Len(pBody) < MaxRuns
    /\ pBody' = Append(pBody, [n |-> n, text |-> text])
    /\ pResult' = Parsed(pBody')
    /\ UNCHANGED <<pipelineVars, gateVars, classifyVars, routerVars, chunkerVars, batchVars, xlsxVars, phoneVars, htmlVars, initVars, whatsappVars>>

ResetBody ==
    /\ pBody # <<>>
    /\ pBody' = <<>>
    /\ pResult' = Parsed(pBody')
    /\ UNCHANGED <<pipelineVars, gateVars, classifyVars, routerVars, chunkerVars, batchVars, xlsxVars, phoneVars, htmlVars, initVars, whatsappVars>>

NextParsers == (\E n \in RunLengths, text \in BOOLEAN : AppendRun(n, text)) \/ ResetBody

SpecParsers == Init /\ [][NextParsers]_vars

(***************************************************************************)
(* SpecXlsx: workbooks put together sheet by sheet, parsed after every     *)
(* change.                                                                 *)
(***************************************************************************)
SheetSizes == {0, 1, 2, 5000, 5001, 5002}

AddSheet(n, text) ==
    /\ Len(xSheets) < MaxSheets
    /\ xSheets' = Append(xSheets, [n |-> n, text |-> text])
    /\ xResult' = extractWithXlsx(xSheets')
    /\ UNCHANGED <<pipelineVars, gateVars, classifyVars, routerVars, parserVars, chunkerVars, batchVars, phoneVars, htmlVars, initVars, whatsappVars>>

ResetWorkbook ==
    /\ xSheets # <<>>
    /\ xSheets' = <<>>
    /\ xResult' = extractWithXlsx(xSheets')
    /\ UNCHANGED <<pipelineVars, gateVars, classifyVars, routerVars, parserVars, chunkerVars, batchVars, phoneVars, htmlVars, initVars, whatsappVars>>

NextXlsx == (\E n \in SheetSizes, text \in BOOLEAN : AddSheet(n, text)) \/ ResetWorkbook

SpecXlsx == Init /\ [][NextXlsx]_vars

(***************************************************************************)
(* SpecPhone: phone numbers put together from fragments, formatted after   *)
(* every change.                                                           *)
(***************************************************************************)
PhoneFragments ==
    { <<"+">>,
      <<"0">>,
      <<"0", "0">>,
      <<"1">>,
      <<"1", "2", "3", "4">>,
      <<"6", "9", "6", "4", "4", "8">>,
      <<"6", "9", "6", "4", "4", "8", "8">>,
      <<"1", "2", "3", "4", "5", "6", "7", "8", "9", "0", "1">>,
      <<"-">>,
      <<" ">>,
      <<"w", "h", "a", "t", "s", "a", "p", "p", ":">>,
      <<"W", "h", "a", "t", "s", "A", "p", "p", ":">> }

AppendPhonePart(f) ==
    /\ fParts < MaxPhoneParts
    /\ fPhone' = fPhone \o f
    /\ fParts' = fParts + 1
    /\ fResult' = Formatted(fPhone')
    /\ UNCHANGED <<pipelineVars, gateVars, classifyVars, routerVars, parserVars, chunkerVars, batchVars, xlsxVars, htmlVars, initVars, whatsappVars>>

ResetPhone ==
    /\ fParts > 0
    /\ fPhone' = <<>>
    /\ fParts' = 0
    /\ fResult' = Formatted(fPhone')
    /\ UNCHANGED <<pipelineVars, gateVars, classifyVars, routerVars, parserVars, chunkerVars, batchVars, xlsxVars, htmlVars, initVars, whatsappVars>>

NextPhone == (\E f \in PhoneFragments : AppendPhonePart(f)) \/ ResetPhone

SpecPhone == Init /\ [][NextPhone]_vars

(***************************************************************************)
(* SpecWebhook: requests to the WhatsApp webhook, one after the other.     *)
(***************************************************************************)
Signers == {"none", "attacker", "b1", "b2", "global"}
WebhookNumbers == {<<"w", "h", "a", "t", "s", "a", "p", "p", ":", "+", "1", "4", "1", "5", "5", "2", "3", "8", "8", "8", "6">>, <<"w", "h", "a", "t", "s", "a", "p", "p", ":", "+", "1", "4", "1", "5", "5", "5", "5", "0", "0", "0", "0">>}
WebhookSenders == {<<"w", "h", "a", "t", "s", "a", "p", "p", ":", "+", "4", "9", "1", "5", "1", "2", "3", "4", "5", "6", "7", "8", "9">>, <<"+", "4", "9", " ", "1", "5", "1", " ", "2", "3", "4", "5", "6", "7", "8", "9">>}
WebhookBodies ==
    { <<"stop">>, <<"start">>, <<"hallo">>, <<"bee", "hallo">>, <<"zzz", "hallo">>,
      <<"stop", "bitte">> }

Webhook(req) ==
    /\ LET response == POST(req, customers) IN
       /\ customers' = response.customers
       /\ wResponse' = [signer |-> req.signer, status |-> response.status,
                        log |-> response.log]
    /\ UNCHANGED wCalls
    /\ UNCHANGED <<pipelineVars, gateVars, classifyVars, routerVars, parserVars, chunkerVars, batchVars, xlsxVars, phoneVars, htmlVars, initVars>>

NextWebhook ==
    \E signer \in Signers, to \in WebhookNumbers, from \in WebhookSenders,
       body \in WebhookBodies :
        Webhook([signer |-> signer, to |-> to, from |-> from, body |-> body])

SpecWebhook == Init /\ [][NextWebhook]_vars

(***************************************************************************)
(* SpecCustomers: NumCalls calls of findOrCreateWhatsAppCustomer, their    *)
(* statements interleaved.  Whether the table has a unique index on        *)
(* (business_id, phone) is not decided by the migrations at hand: an       *)
(* INSERT of a second row for a pair either succeeds or throws.            *)
(***************************************************************************)
CustomerPhones == {<<"w", "h", "a", "t", "s", "a", "p", "p", ":", "+", "4", "9", "1", "5", "1", "2", "3", "4", "5", "6", "7", "8", "9">>, <<"+", "4", "9", " ", "1", "5", "1", " ", "2", "3", "4", "5", "6", "7", "8", "9">>, <<"w", "h", "a", "t", "s", "a", "p", "p", ":", "+", "4", "9", "1", "5", "1", "9", "9", "9", "9", "9", "9", "9", "9">>}

SelectCustomer(c, phone, businessId) ==
    /\ wCalls[c].pc = "idle"
    /\ LET normalizedPhone == formatE164Phone(phone)
           existing == ExistingCustomer(customers, businessId, normalizedPhone)
       IN  wCalls' = [wCalls EXCEPT ![c] =
                        [pc |-> IF existing # 0 THEN "returned" ELSE "insert",
                         businessId |-> businessId, phone |-> normalizedPhone,
                         customerId |-> existing, created |-> FALSE]]
    /\ UNCHANGED <<customers, wResponse>>
    /\ UNCHANGED <<pipelineVars, gateVars, classifyVars, routerVars, parserVars, chunkerVars, batchVars, xlsxVars, phoneVars, htmlVars, initVars>>

InsertCustomer(c, unique) ==
    /\ wCalls[c].pc = "insert"
    /\ IF unique /\ ExistingCustomer(customers, wCalls[c].businessId, wCalls[c].phone) # 0
       THEN /\ wCalls' = [wCalls EXCEPT ![c].pc = "threw"]
            /\ UNCHANGED customers
       ELSE /\ customers' = Append(customers, NewCustomer(customers, wCalls[c].businessId,
                                                           wCalls[c].phone))
            /\ wCalls' = [wCalls EXCEPT ![c].pc = "returned",
                                        ![c].customerId = Len(customers) + 1,
                                        ![c].created = TRUE]
    /\ UNCHANGED wResponse
    /\ UNCHANGED <<pipelineVars, gateVars, classifyVars, routerVars, parserVars, chunkerVars, batchVars, xlsxVars, phoneVars, htmlVars, initVars>>

NextCustomers ==
    \/ \E c \in 1..NumCalls, phone \in CustomerPhones, b \in {"b1", "b2"} :
          SelectCustomer(c, phone, b)
    \/ \E c \in 1..NumCalls, unique \in BOOLEAN : InsertCustomer(c, unique)

SpecCustomers == Init /\ [][NextCustomers]_vars

(***************************************************************************)
(* SpecHtml: texts put together run by run, as the normalisation leaves    *)
(* them (white space only between text), paged after every change.         *)
(***************************************************************************)
TextLengths == {1, 1500, 3500, 3501, 4998, 4999, 5000}

AppendText(n) ==
    /\ Len(hBody) < MaxHtmlRuns
    /\ IF hBody = <<>> THEN TRUE ELSE ~hBody[Len(hBody)].text
    /\ hBody' = Append(hBody, [n |-> n, text |-> TRUE, ch |-> "x"])
    /\ hResult' = extractWithHtml(hBody')
    /\ UNCHANGED <<pipelineVars, gateVars, classifyVars, routerVars, parserVars, chunkerVars, batchVars, xlsxVars, phoneVars, initVars, whatsappVars>>

AppendSpace(n, ch) ==
    /\ Len(hBody) < MaxHtmlRuns
    /\ hBody # <<>> /\ hBody[Len(hBody)].text
    /\ hBody' = Append(hBody, [n |-> n, text |-> FALSE, ch |-> ch])
    /\ hResult' = extractWithHtml(hBody')
    /\ UNCHANGED <<pipelineVars, gateVars, classifyVars, routerVars, parserVars, chunkerVars, batchVars, xlsxVars, phoneVars, initVars, whatsappVars>>

ResetHtml ==
    /\ hBody # <<>>
    /\ hBody' = <<>>
    /\ hResult' = extractWithHtml(hBody')
    /\ UNCHANGED <<pipelineVars, gateVars, classifyVars, routerVars, parserVars, chunkerVars, batchVars, xlsxVars, phoneVars, initVars, whatsappVars>>

NextHtml ==
    \/ \E n \in TextLengths : AppendText(n)
    \/ AppendSpace(1, " ") \/ AppendSpace(1, "\n") \/ AppendSpace(2, "\n")
    \/ ResetHtml

SpecHtml == Init /\ [][NextHtml]_vars

(***************************************************************************)
(* SpecChunker: documents put together page by page and sentence by        *)
(* sentence, pages numbered 1..totalPages, chunked after every change.     *)
(***************************************************************************)
SentenceLengths == {60, 150, 450, 500, 900}

RECURSIVE SentenceCount(_)
SentenceCount(pageList) ==
    IF pageList = <<>> THEN 0
    ELSE Len(pageList[1].sentences) + SentenceCount(Tail(pageList))

NewPage ==
    /\ Len(kPages) < MaxDocPages
    /\ kPages' = Append(kPages, [pageNumber |-> Len(kPages) + 1, sentences |-> <<>>])
    /\ kOut' = chunkPagesWithProvenance(kPages', DEFAULT_OPTIONS)
    /\ UNCHANGED <<pipelineVars, gateVars, classifyVars, routerVars, parserVars, batchVars, xlsxVars, phoneVars, htmlVars, initVars, whatsappVars>>

NewSentence(length) ==
    /\ kPages # <<>>
    /\ SentenceCount(kPages) < MaxSentences
    /\ kPages' = [kPages EXCEPT ![Len(kPages)].sentences =
                     Append(@, [id |-> SentenceCount(kPages) + 1, length |-> length])]
    /\ kOut' = chunkPagesWithProvenance(kPages', DEFAULT_OPTIONS)
    /\ UNCHANGED <<pipelineVars, gateVars, classifyVars, routerVars, parserVars, batchVars, xlsxVars, phoneVars, htmlVars, initVars, whatsappVars>>

ResetDocument ==
    /\ kPages # <<>>
    /\ kPages' = <<>>
    /\ kOut' = chunkPagesWithProvenance(kPages', DEFAULT_OPTIONS)
    /\ UNCHANGED <<pipelineVars, gateVars, classifyVars, routerVars, parserVars, batchVars, xlsxVars, phoneVars, htmlVars, initVars, whatsappVars>>

NextChunker ==
    \/ NewPage
    \/ \E length \in SentenceLengths : NewSentence(length)
    \/ ResetDocument

SpecChunker == Init /\ [][NextChunker]_vars

(***************************************************************************)
(* SpecBatch: generateEmbeddingsBatched on every number of texts, batch    *)
(* size and failing request within the bounds.                             *)
(***************************************************************************)
EmbedBatched(n, batchSize, failAt) ==
    /\ bArgs' = [n |-> n, batchSize |-> batchSize, failAt |-> failAt]
    /\ bOut' = Batched(bArgs')
    /\ UNCHANGED <<pipelineVars, gateVars, classifyVars, routerVars, parserVars, chunkerVars, xlsxVars, phoneVars, htmlVars, initVars, whatsappVars>>

NextBatch ==
    \E n \in 0..MaxTexts, batchSize \in 1..MaxBatchSize, failAt \in 0..(MaxTexts + 1) :
        EmbedBatched(n, batchSize, failAt)

SpecBatch == Init /\ [][NextBatch]_vars

(***************************************************************************)
(* Properties.                                                             *)
(***************************************************************************)
NoDup(seq) == \A i, k \in 1..Len(seq) : i # k => seq[i] # seq[k]

EmbeddedChunks(d) == [i \in 1..Len(embeddings[d]) |-> embeddings[d][i].chunk]

\* C1: however often the outbox event of a version is delivered again (after
\* a crash, after a failed stage, after the job already ended), the version
\* has one page row per page number, one chunk row per chunk index and one
\* embedding row per chunk: no duplicate row exists.
C1_NoDuplicateRows ==
    \A d \in Docs :
        /\ NoDup(pages[d])
        /\ NoDup(chunks[d])
        /\ NoDup(EmbeddedChunks(d))

\* the event was delivered three times and the pipeline committed all rows
C1_Witness ==
    \E d \in Docs :
        /\ outbox[d].attempts = OUTBOX_MAX_ATTEMPTS
        /\ job[d].status = "done"
        /\ Len(pages[d]) = 2
        /\ Len(chunks[d]) = NumChunks
        /\ Len(embeddings[d]) = NumChunks

\* C2: terminal job statuses are absorbing: once a job is done, failed or
\* cancelled, no step changes its status, stage or error code.
C2_TerminalAbsorbing ==
    [][\A d \in Docs :
          job[d].status \in Terminal =>
              /\ job'[d].status = job[d].status
              /\ job'[d].stage = job[d].stage
              /\ job'[d].errorCode = job[d].errorCode]_vars

\* DELETE ran on a document whose job was already done, and the event of the
\* done job was delivered again
C2_Witness ==
    \E d \in Docs :
        /\ job[d].status = "done"
        /\ docStatus[d] = "deleted_pending"
        /\ deletedIn[d] = "other"
        /\ \E w \in Workers : worker[w] = [pc |-> "commit", doc |-> d]
        /\ outbox[d].attempts >= 2

LeaseHolders(d) ==
    {w \in Workers : worker[w].pc \in Holding /\ worker[w].doc = d}

\* C3: at most one worker holds an unexpired lease on an outbox row: a poll
\* returns no row whose lease expiry is later than now, of two lease attempts
\* on the same row at most one succeeds, and a row is leased again only when
\* its previous lease has expired.
C3_LeaseExclusive ==
    [][\A d \in Docs :
          /\ \A w \in Workers :
                (worker[w].pc = "idle" /\ worker'[w] = [pc |-> "polled", doc |-> d])
                    => ~Leased(leaseExpiry[d], now)
          /\ outbox'[d].attempts > outbox[d].attempts
                => /\ ~Leased(leaseExpiry[d], now)
                   /\ Leased(leaseExpiry'[d], now')
                   /\ Cardinality(LeaseHolders(d)') = 1
          /\ Leased(leaseExpiry'[d], now') => Cardinality(LeaseHolders(d)') <= 1]_vars

\* the holder of the first lease crashed, the lease ran out, the row was
\* leased again while another worker had polled the same row
C3_Witness ==
    \E d \in Docs, w1, w2 \in Workers :
        /\ worker[w1] = [pc |-> "invoked", doc |-> d]
        /\ worker[w2] = [pc |-> "polled", doc |-> d]
        /\ outbox[d].attempts = 2
        /\ job[d].errorCode = "none"
        /\ Leased(leaseExpiry[d], now)

\* C4: a job in processing that hits an error goes to failed when the error
\* is terminal; when it is retryable (provider_rate_limited, timeout) it goes
\* to retry_ready with next_retry_at in the future if attempts < max_attempts
\* and to failed otherwise; attempts never exceeds max_attempts.
C4_ErrorHandling ==
    [][\A d \in Docs :
          /\ (job[d].status = "processing" /\ job'[d].status = "retry_ready")
                => /\ job'[d].errorCode \in {"provider_rate_limited", "timeout"}
                   /\ job[d].attempts < 3
                   /\ job'[d].nextRetryAt # NULL
                   /\ job'[d].nextRetryAt > now
          /\ (job[d].status = "processing" /\ job'[d].status = "failed")
                => \/ job'[d].errorCode \notin {"provider_rate_limited", "timeout"}
                   \/ job[d].attempts >= 3
          /\ job'[d].attempts <= 3]_vars

\* a retryable error on the last attempt ended the job
C4_Witness ==
    \E d \in Docs :
        /\ job[d].status = "failed"
        /\ job[d].errorCode = "provider_rate_limited"
        /\ job[d].attempts = 3

\* C5: when DELETE on an active document returns, the document is
\* deleted_pending and every job of it that was queued, processing or
\* retry_ready is failed with error code document_deleted.
C5_DeleteCancelsAll ==
    [][\A d \in Docs :
          (docStatus[d] = "active" /\ docStatus'[d] # "active")
              => /\ docStatus'[d] = "deleted_pending"
                 /\ job[d].status \in NonTerminal
                       => /\ job'[d].status = "failed"
                          /\ job'[d].errorCode = "document_deleted"]_vars

ChunkErrorCodes == {classifyError(m) : m \in ChunkErrorMsgs}

C8_Total(ps) == SumCharCount(ps)
C8_NonEmpty(ps) == Cardinality({i \in 1..Len(ps) : ps[i].charCount > 10})
C8_Rule3(ps) == C8_Total(ps) < (IF Len(ps) = 1 THEN 20 ELSE 50 * Len(ps))
C8_Rule4(ps) == Len(ps) > 3 /\ 2 * C8_NonEmpty(ps) < Len(ps)
C8_Rule5(ps) == Len(ps) > 5 /\ C8_Total(ps) < 20 * Len(ps)
C8_RulesRaised(ps) ==
    Cardinality({r \in {3, 4, 5} :
                    \/ r = 3 /\ C8_Rule3(ps)
                    \/ r = 4 /\ C8_Rule4(ps)
                    \/ r = 5 /\ C8_Rule5(ps)})

C8_Decision(ps) ==
    IF C8_Total(ps) = 0 THEN "extraction_empty"
    ELSE IF Len(ps) > 1 /\ C8_Total(ps) < 100 /\ 10 * C8_NonEmpty(ps) < 3 * Len(ps)
    THEN "needs_ocr"
    ELSE IF C8_RulesRaised(ps) >= 2 THEN "extraction_low_quality"
    ELSE "none"

\* C8: checkExtractionQuality decides in fixed order: extraction_empty when
\* totalChars = 0 (also for zero pages); else needs_ocr when pageCount > 1,
\* totalChars < 100 and nonEmptyRatio < 0.3; else extraction_low_quality iff
\* at least two of rules 3-5 raise an issue; else it passes.
C8_GateOrder ==
    /\ qResult.errorCode = C8_Decision(qPages)
    /\ qResult.passed = (C8_Decision(qPages) = "none")

\* a six-page list that is neither empty nor a scan and fails on two issues
C8_Witness ==
    /\ Len(qPages) = 6
    /\ qResult.errorCode = "extraction_low_quality"
    /\ C8_Total(qPages) >= 100
    /\ C8_RulesRaised(qPages) = 2

C9_Scanned(ps) == Len(ps) = 5 /\ \A i \in 1..5 : ps[i].charCount <= 5

\* C9 as claimed: every 5-page input whose pages yield at most 5 characters
\* each fails the gates with error code needs_ocr.
C9_ScannedNeedsOcr ==
    C9_Scanned(qPages) => ~qResult.passed /\ qResult.errorCode = "needs_ocr"

\* C9 as amended: every 5-page input whose pages yield at most 5 characters
\* each fails the gates; the error code is needs_ocr when at least one
\* character was extracted and extraction_empty when all five pages are empty.
C9_ScannedFails ==
    C9_Scanned(qPages) =>
        /\ ~qResult.passed
        /\ qResult.errorCode =
              IF C8_Total(qPages) > 0 THEN "needs_ocr" ELSE "extraction_empty"

\* five pages of five characters each
C9_Witness ==
    /\ C9_Scanned(qPages)
    /\ C8_Total(qPages) = 25
    /\ qResult.errorCode = "needs_ocr"

C10_Rules ==
    << [kws |-> {KW.rate_limit, KW.http_429, KW.too_many}, code |-> "provider_rate_limited"],
       [kws |-> {KW.timeout, KW.timed_out, KW.aborted}, code |-> "timeout"],
       [kws |-> {KW.invalid_pdf, KW.corrupt, KW.bad_xref}, code |-> "file_corrupted"],
       [kws |-> {KW.unsupported, KW.unknown_format, KW.not_supported}, code |-> "unsupported_format"],
       [kws |-> {KW.too_large, KW.size_limit, KW.memory}, code |-> "file_too_large"] >>

C10_Matches(msg, i) == \E k \in C10_Rules[i].kws : includes(toLowerCase(msg), k)

C10_Matching(msg) == {i \in 1..Len(C10_Rules) : C10_Matches(msg, i)}

C10_Expected(msg) ==
    IF C10_Matching(msg) = {} THEN "parse_failed"
    ELSE C10_Rules[CHOOSE i \in C10_Matching(msg) :
                      \A k \in C10_Matching(msg) : i <= k].code

\* C10: classifyError maps every error string to exactly one code, the code
\* of the first rule the message matches in the order rate-limit, timeout,
\* corruption, unsupported, size, and parse_failed when no rule matches.
C10_FirstRuleWins ==
    /\ cCode = C10_Expected(cMsg)
    /\ cCode \in {"provider_rate_limited", "timeout", "file_corrupted",
                  "unsupported_format", "file_too_large", "parse_failed"}

\* a message that holds a timeout keyword before a rate-limit keyword
C10_Witness ==
    /\ cParts = 2
    /\ C10_Matching(cMsg) = {1, 2}
    /\ includes(SubSeq(toLowerCase(cMsg), 1, 7), KW.timeout)
    /\ cCode = "provider_rate_limited"

C11_Registered(m) == m \in DOMAIN PARSER_MAP

C11_Canonical(t) == t \in DOMAIN SOURCE_TYPE_FALLBACK

\* C11: parseDocument uses the parser registered for mimeType; if there is
\* none it uses the parser registered for the canonical MIME of sourceType;
\* if there is still none it fails, and the error code recorded for the job
\* is unsupported_format.
C11_Routing ==
    IF C11_Registered(rMime)
    THEN ~rResult.threw /\ rResult.parser = PARSER_MAP[rMime]
    ELSE IF C11_Canonical(rSource)
    THEN ~rResult.threw /\ rResult.parser = PARSER_MAP[SOURCE_TYPE_FALLBACK[rSource]]
    ELSE rResult.threw /\ rResult.errorCode = "unsupported_format"

C12_Contiguous(r) ==
    /\ r.totalPages = Len(r.pages)
    /\ \A i \in 1..Len(r.pages) : r.pages[i].pageNumber = i

\* C12: for every parser and every input the returned pages carry the
\* pageNumber values 1..totalPages in increasing order with no gaps, also
\* when a whole block of the input (100 blank lines of a TXT file, 100 CSV
\* rows of empty fields) yields no page content.
C12_PageContiguity ==
    /\ C12_Contiguous(pResult.txt)
    /\ C12_Contiguous(pResult.csv)
    /\ C12_Contiguous(pResult.docx)

\* C13: for pages supplied in increasing pageNumber order 1..totalPages,
\* every chunk has 1 <= pageStart <= pageEnd <= totalPages, the chunkIndex
\* values are 0..k-1 in emission order without gaps, and pageStart and
\* pageEnd do not decrease from one chunk to the next.
C13_ChunkProvenance ==
    LET cs == kOut.chunks IN
    /\ \A i \in 1..Len(cs) :
          /\ 1 <= cs[i].pageStart
          /\ cs[i].pageStart <= cs[i].pageEnd
          /\ cs[i].pageEnd <= Len(kPages)
          /\ cs[i].chunkIndex = i - 1
    /\ \A i \in 1..(Len(cs) - 1) :
          /\ cs[i].pageStart <= cs[i + 1].pageStart
          /\ cs[i].pageEnd <= cs[i + 1].pageEnd

\* two chunks, the second closed on a later page than the first
C13_Witness ==
    /\ Len(kOut.chunks) = 2
    /\ kOut.chunks[1].pageEnd = 1
    /\ kOut.chunks[2].pageStart = 3
    /\ kOut.chunks[2].pageEnd = 3

C14_Emitted ==
    UNION {{kOut.chunks[i].sentences[k].id : k \in 1..Len(kOut.chunks[i].sentences)} :
              i \in 1..Len(kOut.chunks)}

C14_Remainder == {kOut.remainder[k].id : k \in 1..Len(kOut.remainder)}

C14_InOrder(sentences) ==
    \A i \in 1..(Len(sentences) - 1) : sentences[i].id < sentences[i + 1].id

\* C14: the chunks cover all pages in document order: every sentence of
\* every non-empty page is in at least one emitted chunk, in the original
\* order, except the sentences of a final remainder shorter than
\* minChunkSize at the end of the document.
C14_Coverage ==
    /\ \A id \in 1..SentenceCount(kPages) : id \in C14_Emitted \cup C14_Remainder
    /\ \A i \in 1..Len(kOut.chunks) : C14_InOrder(kOut.chunks[i].sentences)

C15_Requests == (bArgs.n + bArgs.batchSize - 1) \div bArgs.batchSize

RECURSIVE C15_Concat(_)
C15_Concat(batches) ==
    IF batches = <<>> THEN <<>> ELSE batches[1] \o C15_Concat(Tail(batches))

\* C15: with batch size b >= 1 and a provider answering each request with
\* one vector per input in order, generateEmbeddingsBatched returns |texts|
\* vectors, vector i that of texts[i], after ceil(|texts| / b) requests of at
\* most b texts each in input order; an empty input returns an empty output
\* without a request; and when a request fails the error propagates and no
\* partial result is returned.
C15_Batching ==
    IF bArgs.failAt \in 1..C15_Requests
    THEN /\ bOut.threw
         /\ bOut.value = <<>>
         /\ bOut.message = EMBEDDINGS_FAILED \o MSG.http_429
         /\ Len(bOut.calls) = bArgs.failAt
    ELSE /\ ~bOut.threw
         /\ Len(bOut.value) = bArgs.n
         /\ \A i \in 1..bArgs.n : bOut.value[i] = [of |-> i, dim |-> 1536]
         /\ Len(bOut.calls) = C15_Requests
         /\ \A k \in 1..Len(bOut.calls) : Len(bOut.calls[k]) \in 1..bArgs.batchSize
         /\ C15_Concat(bOut.calls) = [i \in 1..bArgs.n |-> i]
         /\ bArgs.n = 0 => bOut.value = <<>> /\ bOut.calls = <<>>

\* five texts in batches of two: three requests, the last of one text
C15_Witness ==
    /\ bArgs = [n |-> 5, batchSize |-> 2, failAt |-> 0]
    /\ Len(bOut.calls) = 3
    /\ bOut.calls[3] = <<5>>
    /\ Len(bOut.value) = 5

\* C16: in every reachable state, also after Upload Init failed part-way
\* (an insert or the presigned-URL call threw), every document row owns a
\* version row and every version row created by Upload Init has an ingestion
\* job (queued / pending_upload or later); a failed Upload Init leaves no
\* document, version or job row behind.
C16_UploadInitAtomic ==
    \A d \in Docs :
        /\ docStatus[d] # "none" => version[d]
        /\ version[d] => job[d].status # "none"
        /\ initStatus[d] \in {400, 500} =>
              docStatus[d] = "none" /\ ~version[d] /\ job[d].status = "none"

\* C17: once a document's status is deleted_pending or deleted its mutable
\* metadata is frozen: a PATCH request leaves title and labels unchanged.
C17_FrozenMetadata ==
    [][\A d \in Docs :
          docStatus[d] \in {"deleted_pending", "deleted"} => docMeta'[d] = docMeta[d]]_vars

\* C18: the CSV parser keeps at most 10 000 data rows, 100 rows to a
\* logical page, and metadata.truncated is true if and only if the input
\* held more data rows than the cap, that is, rows were dropped.
C18_CsvCap ==
    /\ pResult.csv.rowCount = Min(Count(pBody), MAX_ROWS)
    /\ Len(pResult.csv.pages) <= (pResult.csv.rowCount + ROWS_PER_PAGE - 1) \div ROWS_PER_PAGE
    /\ pResult.csv.truncated <=> Count(pBody) > MAX_ROWS

\* C19: for each sheet the XLSX parser keeps the header row and up to 5 000
\* data rows: a sheet of at most 5 000 data rows is converted completely and
\* recorded as not truncated, a sheet of more keeps exactly its first 5 000
\* data rows and is recorded as truncated.
C19_SheetCap ==
    \A k \in DOMAIN xResult.sheetInfo :
        LET given == xSheets[k].n - 1
            info == xResult.sheetInfo[k]
        IN  IF given <= MAX_ROWS_PER_SHEET
            THEN info.rows = given /\ ~info.truncated
            ELSE info.rows = MAX_ROWS_PER_SHEET /\ info.truncated

\* /^\+[1-9]\d{7,14}$/: '+', a digit 1-9, then 7 to 14 more digits
C20_E164(s) ==
    LET digits == {"0", "1", "2", "3", "4", "5", "6", "7", "8", "9"}
    IN  /\ Len(s) \in 9..16
        /\ s[1] = "+"
        /\ s[2] \in digits \ {"0"}
        /\ \A i \in 3..Len(s) : s[i] \in digits

\* C20: formatE164Phone returns every input that is already in E.164 form
\* ('+', then 8 to 15 digits of which the first is 1-9) unchanged, and it is
\* idempotent: formatting its result again gives the same result, for
\* every input.
C20_PhoneRoundTrip ==
    /\ C20_E164(fPhone) => fResult.once = fPhone
    /\ fResult.twice = fResult.once

C20_Witness ==
    /\ fParts > 0
    /\ C20_E164(fPhone)
    /\ fResult.once = fPhone
    /\ fResult.twice = fPhone

\* the outbox row of d used up its attempts while its job was being
\* processed, and no worker is working on it
C21_Poison(d) ==
    /\ job[d].status = "processing"
    /\ outbox[d].attempts >= OUTBOX_MAX_ATTEMPTS
    /\ ~outbox[d].processedAt
    /\ \A w \in Workers : worker[w].doc # d

\* C21 as stated: under fair scheduling every job whose upload was completed
\* eventually reaches a terminal status (done, failed or cancelled), whatever
\* retryable errors and worker crashes occur.
C21_EventuallyTerminal ==
    \A d \in Docs : (job[d].stage = "uploaded") ~> (job[d].status \in Terminal)

\* C21, amended: under fair scheduling every job whose upload was completed
\* eventually reaches a terminal status or is left in processing by a crash
\* during the last attempt of its outbox row, which is never polled again; no
\* job stays in queued or retry_ready forever.
C21_TerminalOrPoison ==
    \A d \in Docs :
        (job[d].stage = "uploaded") ~> (job[d].status \in Terminal \/ C21_Poison(d))

C21_Witness ==
    \E d \in Docs : C21_Poison(d) /\ ~Leased(leaseExpiry[d], now)

C22_Rank(stage) ==
    CASE stage = "pending_upload" -> 1
      [] stage = "uploaded" -> 2
      [] stage = "parsing" -> 3
      [] stage = "chunking" -> 4
      [] stage = "embedding" -> 5
      [] OTHER -> 0

C23_CompletedAtSet ==
    \A d \in Docs : job[d].status \in Terminal => job[d].completedAt

\* C24: whenever no single sentence is longer than maxChunkSize, every chunk
\* chunkPagesWithProvenance emits has a content (its sentences joined by
\* single spaces, overlap sentences included) of at most maxChunkSize and of
\* at least minChunkSize characters.
C24_ChunkLength ==
    (\A p \in 1..Len(kPages) : \A i \in 1..Len(kPages[p].sentences) :
        kPages[p].sentences[i].length <= DEFAULT_OPTIONS.maxChunkSize)
    => \A k \in 1..Len(kOut.chunks) :
          /\ kOut.chunks[k].content <= DEFAULT_OPTIONS.maxChunkSize
          /\ kOut.chunks[k].content >= DEFAULT_OPTIONS.minChunkSize

\* C25: the HTML pager loop terminates on every input and its pages are an
\* in-order partition of the normalized content: each page has at most
\* 5 000 characters, the start offset strictly increases from page to page,
\* and no character other than white space at a page boundary is dropped
\* or appears in two pages.
C25_PagerPartition ==
    LET ps == hResult.pages
        space == Offsets(hResult.content, 0, "")
        Gap(k) == (IF k = 0 THEN 0 ELSE ps[k].end)
                  ..((IF k = Len(ps) THEN Count(hResult.content) ELSE ps[k + 1].start) - 1)
    IN  /\ hResult.terminated
        /\ \A k \in 1..Len(ps) :
              /\ ps[k].start < ps[k].end
              /\ ps[k].end - ps[k].start <= CHARS_PER_PAGE
        /\ \A k \in 1..(Len(ps) - 1) : ps[k].end <= ps[k + 1].start
        /\ \A k \in 0..Len(ps) : Gap(k) \subseteq space

C25_Witness ==
    LET ps == hResult.pages IN
    /\ hResult.terminated
    /\ Len(ps) >= 3
    /\ \E k \in 1..(Len(ps) - 1) :
          /\ ps[k].end - ps[k].start < CHARS_PER_PAGE
          /\ ps[k + 1].start = ps[k].end + 2

\* C26: whenever the router is called for a job that Upload Init created,
\* with the mimeType and sourceType Upload Init stored, it does not fail and
\* the parser it selects is the one registered for the canonical MIME type of
\* the job's recorded sourceType.
C26_InitDispatchable ==
    uInit.routed =>
        /\ ~uInit.result.threw
        /\ uInit.sourceType \in DOMAIN SOURCE_TYPE_FALLBACK
        /\ uInit.result.parser = PARSER_MAP[SOURCE_TYPE_FALLBACK[uInit.sourceType]]

\* the page list the quality gates saw: charCount is the length of the page's
\* text, here its sentences joined by one space
C27_Pages ==
    [i \in 1..Len(kPages) |->
        [pageNumber |-> kPages[i].pageNumber,
         charCount |-> JoinedLength(kPages[i].sentences)]]

\* C27: whenever the quality gates pass a page list,
\* chunkPagesWithProvenance with the default options returns at least one
\* chunk for it.
C27_GatedPagesGiveChunks ==
    checkExtractionQuality(C27_Pages).passed => Len(kOut.chunks) >= 1

\* the number of the page the sentence with this id was extracted from
C28_PageOf(id) ==
    kPages[CHOOSE i \in 1..Len(kPages) :
               \E k \in 1..Len(kPages[i].sentences) :
                   kPages[i].sentences[k].id = id].pageNumber

\* C28: every sentence of every emitted chunk, overlap sentences included,
\* comes from a page whose number lies in [pageStart, pageEnd] of the chunk.
C28_SentencesWithinPages ==
    \A i \in 1..Len(kOut.chunks) :
        LET chunk == kOut.chunks[i] IN
        \A k \in 1..Len(chunk.sentences) :
            /\ chunk.pageStart <= C28_PageOf(chunk.sentences[k].id)
            /\ C28_PageOf(chunk.sentences[k].id) <= chunk.pageEnd

\* C29: in the handling of every webhook request, whatever is sent and every
\* customer row created or updated comes after the successful validation of
\* the request's signature; a request without a valid signature sends
\* nothing and changes no row.
C29_ValidatedFirst ==
    \A i \in 1..Len(wResponse.log) :
        wResponse.log[i] \in {"send", "update", "create"} =>
            \E k \in 1..(i - 1) : wResponse.log[k] = "validated"

\* C30: there is at most one customer row per (businessId, normalized
\* phone); every call returns, the calls for one pair return the same
\* customerId, and no two of them report created = true.
C30_OneRowPerCustomer ==
    /\ \A i, k \in 1..Len(customers) :
          (customers[i].businessId = customers[k].businessId
           /\ customers[i].phone = customers[k].phone) => i = k
    /\ \A c \in 1..NumCalls : wCalls[c].pc # "threw"
    /\ \A c, e \in 1..NumCalls :
          (/\ wCalls[c].pc = "returned" /\ wCalls[e].pc = "returned"
           /\ wCalls[c].businessId = wCalls[e].businessId
           /\ wCalls[c].phone = wCalls[e].phone)
          => /\ wCalls[c].customerId = wCalls[e].customerId
             /\ (wCalls[c].created /\ wCalls[e].created => c = e)

====
